---- MODULE Spec2Model ----
(***************************************************************************)
(* A model of the wrend resource-linking engine: RendererBuilder (the      *)
(* registration API and the build pipeline) and the Renderer it produces.  *)
(* Identifiers, callbacks and GPU handles are small symbolic values; a GPU *)
(* handle records which callback produced it, so that the contents of the  *)
(* resource tables can be traced back to the registrations.                *)
(***************************************************************************)
EXTENDS Integers, Sequences, FiniteSets

(***************************************************************************)
(* Bounds and input domains                                                *)
(***************************************************************************)
\* most links (of all kinds together) a builder holds
MaxLinks == 3

VertexShaderIds == {"vs1"}
FragmentShaderIds == {"fs1"}
ProgramIds == {"p1", "p2"}
BufferIds == {"b1", "b2"}
TextureIds == {"t1"}
FramebufferIds == {"fb1"}
TransformFeedbackIds == {"x1"}
\* the attribute links a caller registers: (owning programs, buffer, attribute)
AttributeLinkInputs ==
    { <<(<<"p1">>), "b1", "a1">>,
      <<(<<"p1", "p2">>), "b1", "a1">>,
      <<(<<"p1", "p2">>), "b2", "a1">>,
      <<(<<"p1">>), "b1", "a2">> }
\* shader source texts, by the names they declare
VertexShaderInputs == {<<"vs1", "base">>, <<"vs1", "all">>}
FragmentShaderInputs == {<<"fs1", "frag">>}

\* Option<T>: None is the empty sequence, Some(x) is <<x>>
None == << >>
Some(x) == <<x>>

\* the uniform links a caller registers: (owning programs, uniform, update
\* callback, should-update callback, use_init_callback_for_update)
UniformLinkInputs ==
    { <<(<<"p1">>), "u1", None, None, FALSE>>,
      <<(<<"p1", "p2">>), "u1", Some("update"), Some("should_update"), FALSE>>,
      <<(<<"p1">>), "u2", Some("update"), None, FALSE>>,
      <<(<<"p1">>), "u2", None, None, TRUE>> }

EmptyMap == [k \in {} |-> k]
\* HashMap::insert: an equal key is overwritten
MapInsert(map, key, value) ==
    [k \in DOMAIN map \cup {key} |-> IF k = key THEN value ELSE map[k]]

VARIABLES
    canvas, gl, render_callback, user_ctx,
    vertex_shader_sources, fragment_shader_sources,
    program_links, buffer_links, attribute_links, texture_links,
    framebuffer_links, uniform_links, transform_feedback_links,
    vertex_shaders, fragment_shaders, programs, vertex_array_objects,
    buffers, attributes, uniforms, textures, framebuffers, transform_feedbacks,
    pc, todo, result, renderer, calls, latest_framebuffer_link,
    now, panicked, steps,
    handle, is_animating, pending_frames,
    stage_now, timestamps

settings == <<canvas, render_callback, user_ctx>>
sources == <<vertex_shader_sources, fragment_shader_sources>>
links == <<program_links, buffer_links, attribute_links, texture_links,
           framebuffer_links, uniform_links, transform_feedback_links>>
shaders == <<vertex_shaders, fragment_shaders>>
tables == <<programs, vertex_array_objects, buffers, attributes, uniforms,
            textures, framebuffers, transform_feedbacks>>
control == <<pc, todo, result, renderer>>
\* what the calls made on a built renderer change besides the GPU: the clock
\* performance.now() reads, whether a call has panicked, the calls made so far
runtime == <<now, panicked, steps>>
\* the animation handle made from the renderer
animation == <<handle, is_animating, pending_frames>>
\* the timestamps of build: the `now` local of the stage function that is
\* running, and the timestamps handed to callbacks so far, in call order
clock == <<stage_now, timestamps>>
vars == <<settings, gl, sources, links, shaders, tables, control, calls,
          latest_framebuffer_link, runtime, animation, clock>>

(***************************************************************************)
(* Link identity                                                           *)
(***************************************************************************)
FramebufferLinkEq(a, b) == a.framebuffer_id = b.framebuffer_id
ProgramLinkEq(a, b) == a.program_id = b.program_id
BufferLinkEq(a, b) == a.buffer_id = b.buffer_id
TextureLinkEq(a, b) == a.texture_id = b.texture_id
AttributeLinkEq(a, b) ==
    /\ a.program_ids = b.program_ids
    /\ a.buffer_id = b.buffer_id
    /\ a.attribute_id = b.attribute_id
UniformLinkEq(a, b) ==
    /\ a.program_ids = b.program_ids
    /\ a.uniform_id = b.uniform_id
TransformFeedbackLinkEq(a, b) ==
    a.transform_feedback_id = b.transform_feedback_id

\* HashSet::insert: when the set holds an element equal to the link (`equals`
\* are those elements) it is left as it is
HashSetInsert(set, link, equals) ==
    IF equals # {} THEN set ELSE set \cup {link}

LinksHeld ==
    Cardinality(program_links) + Cardinality(buffer_links)
    + Cardinality(attribute_links) + Cardinality(texture_links)
    + Cardinality(framebuffer_links) + Cardinality(uniform_links)
    + Cardinality(transform_feedback_links)

(***************************************************************************)
(* The state after RendererBuilder::default()                              *)
(***************************************************************************)
Init ==
    /\ canvas = None
    /\ gl = None
    /\ render_callback = None
    /\ user_ctx = None
    /\ vertex_shader_sources = EmptyMap
    /\ fragment_shader_sources = EmptyMap
    /\ program_links = {}
    /\ buffer_links = {}
    /\ attribute_links = {}
    /\ texture_links = {}
    /\ framebuffer_links = {}
    /\ uniform_links = {}
    /\ transform_feedback_links = {}
    /\ vertex_shaders = EmptyMap
    /\ fragment_shaders = EmptyMap
    /\ programs = EmptyMap
    /\ vertex_array_objects = EmptyMap
    /\ buffers = EmptyMap
    /\ attributes = EmptyMap
    /\ uniforms = EmptyMap
    /\ textures = EmptyMap
    /\ framebuffers = EmptyMap
    /\ transform_feedbacks = EmptyMap
    /\ pc = "registering"
    /\ todo = {}
    /\ result = None
    /\ renderer = None
    /\ calls = << >>
    /\ latest_framebuffer_link = EmptyMap
    /\ now = 0
    /\ stage_now = 0
    /\ timestamps = << >>
    /\ panicked = FALSE
    /\ steps = 0
    /\ handle = "none"
    /\ is_animating = FALSE
    /\ pending_frames = 0

(***************************************************************************)
(* Getting the WebGL2 context of a canvas                                  *)
(***************************************************************************)
\* what canvas.get_context_with_context_options can answer
ContextOutcomes == {"context", "throws", "null", "other_type"}

ContextFromCanvas(outcome) ==
    CASE outcome = "throws" ->
           [ok |-> FALSE, err |-> "WebGL2ContextRetrievalError"]
      [] outcome = "null" ->
           [ok |-> FALSE, err |-> "WebGL2ContextNotFoundError"]
      [] outcome = "other_type" ->
           [ok |-> FALSE, err |-> "WebGL2TypeConversionError"]
      [] OTHER -> [ok |-> TRUE, err |-> ""]

(***************************************************************************)
(* Registration (the builder's write API)                                  *)
(***************************************************************************)
\* set_canvas getting the context of the canvas as soon as it is given
SetCanvasEager ==
    /\ pc = "registering"
    /\ \E outcome \in ContextOutcomes :
         LET got == ContextFromCanvas(outcome)
         IN IF got.ok
            THEN /\ canvas' = Some("canvas")
                 /\ gl' = Some("gl")
                 /\ UNCHANGED result
            ELSE /\ result' = Some(got.err)
                 /\ UNCHANGED <<canvas, gl>>
    /\ UNCHANGED <<render_callback, user_ctx, sources, links, shaders,
                   tables, pc, todo, renderer, calls, latest_framebuffer_link>>
    /\ UNCHANGED <<runtime, animation, clock>>

SetCanvas ==
    /\ pc = "registering"
    /\ canvas' = Some("canvas")
    /\ UNCHANGED <<gl, render_callback, user_ctx, sources, links, shaders,
                   tables, control, calls, latest_framebuffer_link>>
    /\ UNCHANGED <<runtime, animation, clock>>

SetRenderCallback ==
    /\ pc = "registering"
    /\ render_callback' = Some("render")
    /\ UNCHANGED <<gl, canvas, user_ctx, sources, links, shaders, tables,
                   control, calls, latest_framebuffer_link>>
    /\ UNCHANGED <<runtime, animation, clock>>

SetUserCtx ==
    /\ pc = "registering"
    /\ user_ctx' = Some("ctx")
    /\ UNCHANGED <<gl, canvas, render_callback, sources, links, shaders,
                   tables, control, calls, latest_framebuffer_link>>
    /\ UNCHANGED <<runtime, animation, clock>>

AddVertexShaderSrc ==
    /\ pc = "registering"
    /\ \E input \in VertexShaderInputs :
         vertex_shader_sources' =
             MapInsert(vertex_shader_sources, input[1], input[2])
    /\ UNCHANGED <<settings, gl, fragment_shader_sources, links, shaders,
                   tables, control, calls, latest_framebuffer_link>>
    /\ UNCHANGED <<runtime, animation, clock>>

AddFragmentShaderSrc ==
    /\ pc = "registering"
    /\ \E input \in FragmentShaderInputs :
         fragment_shader_sources' =
             MapInsert(fragment_shader_sources, input[1], input[2])
    /\ UNCHANGED <<settings, gl, vertex_shader_sources, links, shaders,
                   tables, control, calls, latest_framebuffer_link>>
    /\ UNCHANGED <<runtime, animation, clock>>

AddProgramLink ==
    /\ pc = "registering"
    /\ LinksHeld < MaxLinks
    /\ \E p \in ProgramIds, v \in VertexShaderIds, f \in FragmentShaderIds :
         LET link == [program_id |-> p, vertex_shader_id |-> v,
                      fragment_shader_id |-> f]
         IN program_links' = HashSetInsert(program_links, link,
                {held \in program_links : ProgramLinkEq(held, link)})
    /\ UNCHANGED <<settings, gl, sources, buffer_links, attribute_links,
                   texture_links, framebuffer_links, uniform_links,
                   transform_feedback_links, shaders, tables, control, calls,
                   latest_framebuffer_link>>
    /\ UNCHANGED <<runtime, animation, clock>>

AddBufferLink ==
    /\ pc = "registering"
    /\ LinksHeld < MaxLinks
    /\ \E b \in BufferIds :
         LET link == [buffer_id |-> b, callback |-> "cbA"]
         IN buffer_links' = HashSetInsert(buffer_links, link,
                {held \in buffer_links : BufferLinkEq(held, link)})
    /\ UNCHANGED <<settings, gl, sources, program_links, attribute_links,
                   texture_links, framebuffer_links, uniform_links,
                   transform_feedback_links, shaders, tables, control, calls,
                   latest_framebuffer_link>>
    /\ UNCHANGED <<runtime, animation, clock>>

AddAttributeLink ==
    /\ pc = "registering"
    /\ LinksHeld < MaxLinks
    /\ \E input \in AttributeLinkInputs :
         LET link == [program_ids |-> input[1], buffer_id |-> input[2],
                      attribute_id |-> input[3]]
         IN attribute_links' = HashSetInsert(attribute_links, link,
                {held \in attribute_links : AttributeLinkEq(held, link)})
    /\ UNCHANGED <<settings, gl, sources, program_links, buffer_links,
                   texture_links, framebuffer_links, uniform_links,
                   transform_feedback_links, shaders, tables, control, calls,
                   latest_framebuffer_link>>
    /\ UNCHANGED <<runtime, animation, clock>>

AddTextureLink ==
    /\ pc = "registering"
    /\ LinksHeld < MaxLinks
    /\ \E t \in TextureIds :
         LET link == [texture_id |-> t, callback |-> "cbA"]
         IN texture_links' = HashSetInsert(texture_links, link,
                {held \in texture_links : TextureLinkEq(held, link)})
    /\ UNCHANGED <<settings, gl, sources, program_links, buffer_links,
                   attribute_links, framebuffer_links, uniform_links,
                   transform_feedback_links, shaders, tables, control, calls,
                   latest_framebuffer_link>>
    /\ UNCHANGED <<runtime, animation, clock>>

AddFramebufferLink ==
    /\ pc = "registering"
    /\ LinksHeld < MaxLinks
    /\ \E fb \in FramebufferIds, cb \in {"cbA", "cbB"},
          t \in {None} \cup {Some(id) : id \in TextureIds} :
         LET link == [framebuffer_id |-> fb, texture_id |-> t, callback |-> cb]
         IN /\ framebuffer_links' = HashSetInsert(framebuffer_links, link,
                   {held \in framebuffer_links : FramebufferLinkEq(held, link)})
            /\ latest_framebuffer_link' =
                   MapInsert(latest_framebuffer_link, fb, link)
    /\ UNCHANGED <<settings, gl, sources, program_links, buffer_links,
                   attribute_links, texture_links, uniform_links,
                   transform_feedback_links, shaders, tables, control, calls>>
    /\ UNCHANGED <<runtime, animation, clock>>

AddUniformLink ==
    /\ pc = "registering"
    /\ LinksHeld < MaxLinks
    /\ \E input \in UniformLinkInputs :
         LET link == [program_ids |-> input[1], uniform_id |-> input[2],
                      initialize_callback |-> "initialize",
                      update_callback |-> input[3],
                      should_update_callback |-> input[4],
                      use_init_callback_for_update |-> input[5]]
         IN uniform_links' = HashSetInsert(uniform_links, link,
                {held \in uniform_links : UniformLinkEq(held, link)})
    /\ UNCHANGED <<settings, gl, sources, program_links, buffer_links,
                   attribute_links, texture_links, framebuffer_links,
                   transform_feedback_links, shaders, tables, control, calls,
                   latest_framebuffer_link>>
    /\ UNCHANGED <<runtime, animation, clock>>

AddTransformFeedbackLink ==
    /\ pc = "registering"
    /\ LinksHeld < MaxLinks
    /\ \E x \in TransformFeedbackIds :
         LET link == [transform_feedback_id |-> x]
         IN transform_feedback_links' =
                HashSetInsert(transform_feedback_links, link,
                    {held \in transform_feedback_links :
                         TransformFeedbackLinkEq(held, link)})
    /\ UNCHANGED <<settings, gl, sources, program_links, buffer_links,
                   attribute_links, texture_links, framebuffer_links,
                   uniform_links, shaders, tables, control, calls,
                   latest_framebuffer_link>>
    /\ UNCHANGED <<runtime, animation, clock>>

(***************************************************************************)
(* Build: shared pieces                                                    *)
(***************************************************************************)
\* the order of the stages with textures and framebuffers before uniforms
StageOrderTexturesFirst ==
    << "save_webgl_context_from_canvas",
       "compile_fragment_shaders",
       "compile_vertex_shaders",
       "link_programs",
       "create_buffers",
       "create_attributes",
       "create_textures",
       "create_framebuffers",
       "build_uniforms",
       "create_transform_feedbacks",
       "assemble" >>

\* the order of the stages with attributes before buffers
StageOrderAttributesFirst ==
    << "save_webgl_context_from_canvas",
       "compile_fragment_shaders",
       "compile_vertex_shaders",
       "link_programs",
       "create_attributes",
       "create_buffers",
       "build_uniforms",
       "create_textures",
       "create_framebuffers",
       "create_transform_feedbacks",
       "assemble" >>

\* the stages of RendererBuilder::build, in the order build runs them
StageOrder ==
    << "save_webgl_context_from_canvas",
       "compile_fragment_shaders",
       "compile_vertex_shaders",
       "link_programs",
       "create_buffers",
       "create_attributes",
       "build_uniforms",
       "create_textures",
       "create_framebuffers",
       "create_transform_feedbacks",
       "assemble" >>

StageIndex(stage) == CHOOSE i \in 1..Len(StageOrder) : StageOrder[i] = stage

\* what each stage's loop iterates over
Items(stage) ==
    CASE stage = "compile_fragment_shaders" -> DOMAIN fragment_shader_sources
      [] stage = "compile_vertex_shaders" -> DOMAIN vertex_shader_sources
      [] stage = "link_programs" -> program_links
      [] stage = "create_buffers" -> buffer_links
      [] stage = "create_attributes" -> attribute_links
      [] stage = "build_uniforms" -> uniform_links
      [] stage = "create_textures" -> texture_links
      [] stage = "create_framebuffers" -> framebuffer_links
      [] stage = "create_transform_feedbacks" -> transform_feedback_links
      [] OTHER -> {}

\* the stages that look the context up once, before their loop, and the error
\* each returns when it is absent
NoContextError ==
    [ create_buffers |-> "NoContextCreateAttributeError",
      create_attributes |-> "NoContextCreateAttributeError",
      create_textures |-> "NoContextCreateTextureError",
      create_framebuffers |-> "NoContextCreateFramebufferError",
      create_transform_feedbacks |-> "NoContextBuildTransformFeedbackError" ]

\* one GPU call or callback invocation made by build
Event(op, id, prog, arg) == [op |-> op, id |-> id, prog |-> prog, arg |-> arg]

\* `?` on an Err: build returns the error, the builder is dropped
Fail(error) ==
    /\ pc' = "done"
    /\ todo' = {}
    /\ result' = Some(error)
    /\ renderer' = None

\* Build calls the stage functions one after the other from `stage` on. A
\* stage function whose loop has nothing to iterate over returns Ok(self) at
\* once, after looking the context up if it does so before its loop; the
\* first stage that fails that lookup, or has items, or is the last, is where
\* build stands next.
Halts(stage, context) ==
    \/ stage = "assemble"
    \/ Items(stage) # {}
    \/ stage \in DOMAIN NoContextError /\ context = None

Enter(stage, context) ==
    LET i == CHOOSE k \in StageIndex(stage)..Len(StageOrder) :
                 /\ Halts(StageOrder[k], context)
                 /\ \A j \in StageIndex(stage)..(k - 1) :
                        ~Halts(StageOrder[j], context)
        at == StageOrder[i]
    IN IF at \in DOMAIN NoContextError /\ context = None
       THEN Fail(NoContextError[at])
       ELSE /\ pc' = at
            /\ todo' = Items(at)
            /\ UNCHANGED <<result, renderer>>

\* one iteration of a stage's loop is over: the loop goes on, or the stage
\* returns Ok(self) and build calls the next one
Continue(item) ==
    IF todo \ {item} = {}
    THEN Enter(StageOrder[StageIndex(pc) + 1], gl)
    ELSE /\ todo' = todo \ {item}
         /\ UNCHANGED <<pc, result, renderer>>

\* the callbacks build hands a timestamp to
IsTimedCallback(e) ==
    e.op \in { "program_create_callback", "create_buffer",
               "attribute_create_callback", "uniform_initialize_callback",
               "create_texture", "create_framebuffer" }

\* the callbacks among the calls `made`, each with the timestamp it was handed
Handed(made, t) ==
    LET timed == SelectSeq(made, IsTimedCallback)
    IN [i \in 1..Len(timed) |->
          [op |-> timed[i].op, id |-> timed[i].id, now |-> t]]

\* a stage function that hands out the `now` of the stage function before it
StageNowStale == stage_now

\* `let now = Self::now();` before the loop of create_buffers,
\* create_attributes, create_textures and create_framebuffers: the clock as
\* it is when the loop starts, kept for every iteration
StageNow == IF todo = Items(pc) THEN now ELSE stage_now

\* the callbacks of one iteration of such a loop are handed the stage's `now`
HandStageNow ==
    /\ stage_now' = StageNow
    /\ timestamps' = timestamps \o
           Handed(SubSeq(calls', Len(calls) + 1, Len(calls')), StageNow)

\* link_program and build_uniform read Self::now() themselves, once for the
\* link they are given
HandNow ==
    /\ UNCHANGED stage_now
    /\ timestamps' = timestamps \o
           Handed(SubSeq(calls', Len(calls) + 1, Len(calls')), now)

(***************************************************************************)
(* Stage 1: the context                                                    *)
(***************************************************************************)
\* build looking for the render callback before it does anything else
SaveWebglContextRenderCallbackFirst ==
    /\ pc = "registering"
    /\ IF render_callback = None
       THEN Fail("NoRenderCallbackBuildError") /\ UNCHANGED gl
       ELSE IF canvas = None
       THEN Fail("CanvasReturnedNoContext") /\ UNCHANGED gl
       ELSE \E outcome \in ContextOutcomes :
              LET got == ContextFromCanvas(outcome)
              IN IF got.ok
                 THEN /\ gl' = Some("gl")
                      /\ Enter(StageOrder[2], Some("gl"))
                 ELSE Fail(got.err) /\ UNCHANGED gl
    /\ UNCHANGED <<settings, sources, links, shaders, tables, calls,
                   latest_framebuffer_link>>
    /\ UNCHANGED <<runtime, animation, clock>>

\* a first stage that leaves a missing canvas to the later checks
SaveWebglContextSkippingCanvas ==
    /\ pc = "registering"
    /\ IF canvas = None
       THEN Enter(StageOrder[2], None) /\ UNCHANGED gl
       ELSE \E outcome \in ContextOutcomes :
              LET got == ContextFromCanvas(outcome)
              IN IF got.ok
                 THEN /\ gl' = Some("gl")
                      /\ Enter(StageOrder[2], Some("gl"))
                 ELSE Fail(got.err) /\ UNCHANGED gl
    /\ UNCHANGED <<settings, sources, links, shaders, tables, calls,
                   latest_framebuffer_link>>
    /\ UNCHANGED <<runtime, animation, clock>>

\* build is called: the builder is consumed and the first stage runs
SaveWebglContextFromCanvas ==
    /\ pc = "registering"
    /\ IF canvas = None
       THEN Fail("CanvasReturnedNoContext") /\ UNCHANGED gl
       ELSE \E outcome \in ContextOutcomes :
              LET got == ContextFromCanvas(outcome)
              IN IF got.ok
                 THEN /\ gl' = Some("gl")
                      /\ Enter(StageOrder[2], Some("gl"))
                 ELSE Fail(got.err) /\ UNCHANGED gl
    /\ UNCHANGED <<settings, sources, links, shaders, tables, calls,
                   latest_framebuffer_link>>
    /\ UNCHANGED <<runtime, animation, clock>>

(***************************************************************************)
(* Stage 2: shaders                                                        *)
(***************************************************************************)
\* what the GPU can answer to create_shader / compile_shader
CompileOutcomes == {"compiled", "no_shader", "error_with_log", "error_without_log"}

\* a compiled shader is identified by the source text it was compiled from
CompileShader(source, outcome) ==
    IF gl = None
    THEN [ok |-> FALSE, err |-> "NoContextCompileShaderError", shader |-> ""]
    ELSE CASE outcome = "no_shader" ->
                [ok |-> FALSE, err |-> "NoShaderReturnedCompilerShaderError",
                 shader |-> ""]
           [] outcome = "error_with_log" ->
                [ok |-> FALSE, err |-> "KnownErrorCompileShaderError",
                 shader |-> ""]
           [] outcome = "error_without_log" ->
                [ok |-> FALSE, err |-> "UnknownErrorCompilerShaderError",
                 shader |-> ""]
           [] OTHER -> [ok |-> TRUE, err |-> "", shader |-> source]

CompileFragmentShaders ==
    /\ pc = "compile_fragment_shaders"
    /\ \E id \in todo, outcome \in CompileOutcomes :
         LET got == CompileShader(fragment_shader_sources[id], outcome)
         IN IF got.ok
            THEN /\ fragment_shaders' = MapInsert(fragment_shaders, id, got.shader)
                 /\ Continue(id)
            ELSE Fail(got.err) /\ UNCHANGED fragment_shaders
    /\ UNCHANGED <<settings, gl, sources, links, vertex_shaders, tables, calls,
                   latest_framebuffer_link>>
    /\ UNCHANGED <<runtime, animation, clock>>

CompileVertexShaders ==
    /\ pc = "compile_vertex_shaders"
    /\ \E id \in todo, outcome \in CompileOutcomes :
         LET got == CompileShader(vertex_shader_sources[id], outcome)
         IN IF got.ok
            THEN /\ vertex_shaders' = MapInsert(vertex_shaders, id, got.shader)
                 /\ Continue(id)
            ELSE Fail(got.err) /\ UNCHANGED vertex_shaders
    /\ UNCHANGED <<settings, gl, sources, links, fragment_shaders, tables, calls,
                   latest_framebuffer_link>>
    /\ UNCHANGED <<runtime, animation, clock>>

(***************************************************************************)
(* Stage 3: programs and their vertex array objects                        *)
(***************************************************************************)
\* what the program-creation callback and create_vertex_array can answer
LinkOutcomes == {"linked", "create_program_error", "no_vao"}

\* link_program invoking the program-creation callback before it looks the
\* shaders up
LinkProgramCallbackFirst(program_link, outcome) ==
    LET none == [ok |-> FALSE, called |-> TRUE, err |-> "",
                 program |-> [vertex |-> "", fragment |-> ""]]
    IN IF gl = None
       THEN [none EXCEPT !.err = "NoContextLinkProgramError", !.called = FALSE]
       ELSE IF outcome = "create_program_error"
       THEN [none EXCEPT !.err = "CreateProgramLinkProgramError"]
       ELSE IF program_link.vertex_shader_id \notin DOMAIN vertex_shaders
       THEN [none EXCEPT !.err = "VertexShaderNotFoundLinkProgramError"]
       ELSE IF program_link.fragment_shader_id \notin DOMAIN fragment_shaders
       THEN [none EXCEPT !.err = "FragmentShaderNotFoundLinkProgramError"]
       ELSE IF outcome = "no_vao"
       THEN [none EXCEPT !.err = "NoVaoLinkProgramError"]
       ELSE [ok |-> TRUE, called |-> TRUE, err |-> "",
             program |->
                 [vertex |-> vertex_shaders[program_link.vertex_shader_id],
                  fragment |->
                      fragment_shaders[program_link.fragment_shader_id]]]

\* a linked program is identified by the two compiled shaders it was given
LinkProgram(program_link, outcome) ==
    LET none == [ok |-> FALSE, called |-> FALSE, err |-> "",
                 program |-> [vertex |-> "", fragment |-> ""]]
    IN IF gl = None
       THEN [none EXCEPT !.err = "NoContextLinkProgramError"]
       ELSE IF program_link.vertex_shader_id \notin DOMAIN vertex_shaders
       THEN [none EXCEPT !.err = "VertexShaderNotFoundLinkProgramError"]
       ELSE IF program_link.fragment_shader_id \notin DOMAIN fragment_shaders
       THEN [none EXCEPT !.err = "FragmentShaderNotFoundLinkProgramError"]
       ELSE IF outcome = "create_program_error"
       THEN [none EXCEPT !.err = "CreateProgramLinkProgramError",
                         !.called = TRUE]
       ELSE IF outcome = "no_vao"
       THEN [none EXCEPT !.err = "NoVaoLinkProgramError", !.called = TRUE]
       ELSE [ok |-> TRUE, called |-> TRUE, err |-> "",
             program |->
                 [vertex |-> vertex_shaders[program_link.vertex_shader_id],
                  fragment |->
                      fragment_shaders[program_link.fragment_shader_id]]]

\* link_programs storing the program before its vertex array object is
\* allocated
LinkProgramsProgramFirst ==
    /\ pc = "link_programs"
    /\ \E program_link \in todo, outcome \in LinkOutcomes :
         LET got == LinkProgram(program_link, outcome)
             id == program_link.program_id
         IN /\ calls' = IF got.called
                        THEN Append(calls,
                                 Event("program_create_callback", id, id, None))
                        ELSE calls
            /\ IF got.ok
               THEN /\ programs' = MapInsert(programs, id, got.program)
                    /\ vertex_array_objects' =
                           MapInsert(vertex_array_objects, id, <<"vao", id>>)
                    /\ Continue(program_link)
               ELSE /\ Fail(got.err)
                    /\ programs' =
                         IF got.err = "NoVaoLinkProgramError"
                         THEN MapInsert(programs, id,
                                LinkProgram(program_link, "linked").program)
                         ELSE programs
                    /\ UNCHANGED vertex_array_objects
    /\ UNCHANGED <<settings, gl, sources, links, shaders, buffers, attributes,
                   uniforms, textures, framebuffers, transform_feedbacks,
                   latest_framebuffer_link>>
    /\ UNCHANGED <<runtime, animation>>
    /\ HandNow

LinkPrograms ==
    /\ pc = "link_programs"
    /\ \E program_link \in todo, outcome \in LinkOutcomes :
         LET got == LinkProgram(program_link, outcome)
             id == program_link.program_id
         IN /\ calls' = IF got.called
                        THEN Append(calls,
                                 Event("program_create_callback", id, id, None))
                        ELSE calls
            /\ IF got.ok
               THEN /\ programs' = MapInsert(programs, id, got.program)
                    /\ vertex_array_objects' =
                           MapInsert(vertex_array_objects, id, <<"vao", id>>)
                    /\ Continue(program_link)
               ELSE /\ Fail(got.err)
                    /\ UNCHANGED <<programs, vertex_array_objects>>
    /\ UNCHANGED <<settings, gl, sources, links, shaders, buffers, attributes,
                   uniforms, textures, framebuffers, transform_feedbacks,
                   latest_framebuffer_link>>
    /\ UNCHANGED <<runtime, animation>>
    /\ HandNow

(***************************************************************************)
(* Stage 4: buffers                                                        *)
(***************************************************************************)
CreateBuffers ==
    /\ pc = "create_buffers"
    /\ \E buffer_link \in todo :
         LET id == buffer_link.buffer_id
             webgl_buffer == <<id, buffer_link.callback>>
         IN /\ calls' = Append(calls, Event("create_buffer", id, "", None))
            /\ buffers' = MapInsert(buffers, id,
                   [buffer_id |-> id, webgl_buffer |-> webgl_buffer])
            /\ Continue(buffer_link)
    /\ UNCHANGED <<settings, gl, sources, links, shaders, programs,
                   vertex_array_objects, attributes, uniforms, textures,
                   framebuffers, transform_feedbacks, latest_framebuffer_link>>
    /\ UNCHANGED <<runtime, animation>>
    /\ HandStageNow

(***************************************************************************)
(* Stage 5: attributes                                                     *)
(***************************************************************************)
\* IdName::name of the attribute and uniform identifiers
AttributeName == [a1 |-> "a_1", a2 |-> "a_2"]
UniformName == [u1 |-> "u_1", u2 |-> "u_2"]

\* the names a shader source text declares
Declares(source) ==
    CASE source = "base" -> {"a_1", "u_1"}
      [] source = "all" -> {"a_1", "a_2", "u_1", "u_2"}
      [] source = "frag" -> {"u_1"}
      [] OTHER -> {}

\* gl.get_attrib_location: the slot of a vertex-shader input, -1 when the
\* program has no such input
GetAttribLocation(program, name) ==
    IF name \notin Declares(program.vertex) THEN -1
    ELSE IF name = "a_1" THEN 0 ELSE 1

\* the loop over the owning programs passing over an owner that is not linked
RECURSIVE CreateAttributeFromSkipping(_, _, _, _)
CreateAttributeFromSkipping(attribute_link, webgl_buffer, i, acc) ==
    IF i > Len(attribute_link.program_ids) THEN acc
    ELSE
      LET p == attribute_link.program_ids[i]
          a == attribute_link.attribute_id
      IN IF p \notin DOMAIN programs \/ p \notin DOMAIN vertex_array_objects
         THEN CreateAttributeFromSkipping(attribute_link, webgl_buffer, i + 1,
                                          acc)
         ELSE
           LET location == GetAttribLocation(programs[p], AttributeName[a])
               looked == Append(acc.events,
                   Event("get_attrib_location", a, p, <<location>>))
           IN IF location = -1
              THEN [acc EXCEPT
                      !.err = Some("AttributeLocationNotFoundCreateAttributeError"),
                      !.events = looked]
              ELSE CreateAttributeFromSkipping(attribute_link, webgl_buffer,
                     i + 1,
                     [err |-> None,
                      locations |-> MapInsert(acc.locations, p, location),
                      events |-> looked \o
                        << Event("bind_vertex_array", a, p,
                                 Some(vertex_array_objects[p])),
                           Event("bind_buffer", a, p, Some(webgl_buffer)),
                           Event("enable_vertex_attrib_array", a, p,
                                 <<location>>),
                           Event("attribute_create_callback", a, p,
                                 <<webgl_buffer, location>>),
                           Event("bind_vertex_array", a, p, None),
                           Event("bind_buffer", a, p, None) >>])

\* the loop over the owning programs invoking the create callback before the
\* vertex array object and the buffer are bound
RECURSIVE CreateAttributeFromUnbound(_, _, _, _)
CreateAttributeFromUnbound(attribute_link, webgl_buffer, i, acc) ==
    IF i > Len(attribute_link.program_ids) THEN acc
    ELSE
      LET p == attribute_link.program_ids[i]
          a == attribute_link.attribute_id
      IN IF p \notin DOMAIN programs
         THEN [acc EXCEPT !.err = Some("ProgramNotFoundCreateAttributeError")]
         ELSE IF p \notin DOMAIN vertex_array_objects
         THEN [acc EXCEPT !.err = Some("VAONotFoundCreateAttributeError")]
         ELSE
           LET location == GetAttribLocation(programs[p], AttributeName[a])
               looked == Append(acc.events,
                   Event("get_attrib_location", a, p, <<location>>))
           IN IF location = -1
              THEN [acc EXCEPT
                      !.err = Some("AttributeLocationNotFoundCreateAttributeError"),
                      !.events = looked]
              ELSE CreateAttributeFromUnbound(attribute_link, webgl_buffer,
                     i + 1,
                     [err |-> None,
                      locations |-> MapInsert(acc.locations, p, location),
                      events |-> looked \o
                        << Event("attribute_create_callback", a, p,
                                 <<webgl_buffer, location>>),
                           Event("bind_vertex_array", a, p,
                                 Some(vertex_array_objects[p])),
                           Event("bind_buffer", a, p, Some(webgl_buffer)),
                           Event("enable_vertex_attrib_array", a, p,
                                 <<location>>),
                           Event("bind_vertex_array", a, p, None),
                           Event("bind_buffer", a, p, None) >>])

\* the body of create_attributes' loop over the owning programs, from owner i on
RECURSIVE CreateAttributeFrom(_, _, _, _)
CreateAttributeFrom(attribute_link, webgl_buffer, i, acc) ==
    IF i > Len(attribute_link.program_ids) THEN acc
    ELSE
      LET p == attribute_link.program_ids[i]
          a == attribute_link.attribute_id
      IN IF p \notin DOMAIN programs
         THEN [acc EXCEPT !.err = Some("ProgramNotFoundCreateAttributeError")]
         ELSE IF p \notin DOMAIN vertex_array_objects
         THEN [acc EXCEPT !.err = Some("VAONotFoundCreateAttributeError")]
         ELSE
           LET location == GetAttribLocation(programs[p], AttributeName[a])
               looked == Append(acc.events,
                   Event("get_attrib_location", a, p, <<location>>))
           IN IF location = -1
              THEN [acc EXCEPT
                      !.err = Some("AttributeLocationNotFoundCreateAttributeError"),
                      !.events = looked]
              ELSE CreateAttributeFrom(attribute_link, webgl_buffer, i + 1,
                     [err |-> None,
                      locations |-> MapInsert(acc.locations, p, location),
                      events |-> looked \o
                        << Event("bind_vertex_array", a, p,
                                 Some(vertex_array_objects[p])),
                           Event("bind_buffer", a, p, Some(webgl_buffer)),
                           Event("enable_vertex_attrib_array", a, p,
                                 <<location>>),
                           Event("attribute_create_callback", a, p,
                                 <<webgl_buffer, location>>),
                           Event("bind_vertex_array", a, p, None),
                           Event("bind_buffer", a, p, None) >>])

\* CreateAttribute looking the buffer up under the attribute's identifier
CreateAttributeWrongKey(attribute_link) ==
    IF attribute_link.attribute_id \notin DOMAIN buffers
    THEN [err |-> Some("BufferNotFoundCreateAttributeError"),
          locations |-> EmptyMap, events |-> << >>]
    ELSE CreateAttributeFrom(attribute_link,
             buffers[attribute_link.buffer_id].webgl_buffer, 1,
             [err |-> None, locations |-> EmptyMap, events |-> << >>])

CreateAttribute(attribute_link) ==
    IF attribute_link.buffer_id \notin DOMAIN buffers
    THEN [err |-> Some("BufferNotFoundCreateAttributeError"),
          locations |-> EmptyMap, events |-> << >>]
    ELSE CreateAttributeFrom(attribute_link,
             buffers[attribute_link.buffer_id].webgl_buffer, 1,
             [err |-> None, locations |-> EmptyMap, events |-> << >>])

\* create_attributes keeping the entry an attribute id already has
CreateAttributesKeepingFirst ==
    /\ pc = "create_attributes"
    /\ \E attribute_link \in todo :
         LET got == CreateAttribute(attribute_link)
         IN /\ calls' = calls \o got.events
            /\ IF got.err = None
               THEN /\ attributes' =
                        IF attribute_link.attribute_id \in DOMAIN attributes
                        THEN attributes
                        ELSE MapInsert(attributes,
                          attribute_link.attribute_id,
                          [program_ids |-> attribute_link.program_ids,
                           buffer_id |-> attribute_link.buffer_id,
                           attribute_id |-> attribute_link.attribute_id,
                           webgl_buffer |->
                               buffers[attribute_link.buffer_id].webgl_buffer,
                           attribute_locations |-> got.locations])
                    /\ Continue(attribute_link)
               ELSE Fail(got.err[1]) /\ UNCHANGED attributes
    /\ UNCHANGED <<settings, gl, sources, links, shaders, programs,
                   vertex_array_objects, buffers, uniforms, textures,
                   framebuffers, transform_feedbacks, latest_framebuffer_link>>
    /\ UNCHANGED <<runtime, animation>>
    /\ HandStageNow

CreateAttributes ==
    /\ pc = "create_attributes"
    /\ \E attribute_link \in todo :
         LET got == CreateAttribute(attribute_link)
         IN /\ calls' = calls \o got.events
            /\ IF got.err = None
               THEN /\ attributes' = MapInsert(attributes,
                          attribute_link.attribute_id,
                          [program_ids |-> attribute_link.program_ids,
                           buffer_id |-> attribute_link.buffer_id,
                           attribute_id |-> attribute_link.attribute_id,
                           webgl_buffer |->
                               buffers[attribute_link.buffer_id].webgl_buffer,
                           attribute_locations |-> got.locations])
                    /\ Continue(attribute_link)
               ELSE Fail(got.err[1]) /\ UNCHANGED attributes
    /\ UNCHANGED <<settings, gl, sources, links, shaders, programs,
                   vertex_array_objects, buffers, uniforms, textures,
                   framebuffers, transform_feedbacks, latest_framebuffer_link>>
    /\ UNCHANGED <<runtime, animation>>
    /\ HandStageNow

(***************************************************************************)
(* Stage 6: uniforms                                                       *)
(***************************************************************************)
\* gl.get_uniform_location: None when neither shader declares the name
GetUniformLocation(program, name) ==
    IF name \in Declares(program.vertex) \cup Declares(program.fragment)
    THEN Some(name)
    ELSE None

\* the loop over the owning programs going on when a location is not found
RECURSIVE BuildUniformFromLenient(_, _, _)
BuildUniformFromLenient(uniform_link, i, acc) ==
    IF i > Len(uniform_link.program_ids) THEN acc
    ELSE
      LET p == uniform_link.program_ids[i]
          u == uniform_link.uniform_id
      IN IF p \notin DOMAIN programs
         THEN [acc EXCEPT !.err = Some("ProgramNotFoundBuildUniformsError")]
         ELSE
           LET location == GetUniformLocation(programs[p], UniformName[u])
               looked == acc.events \o
                   << Event("use_program", u, p, Some(p)),
                      Event("get_uniform_location", u, p, location) >>
           IN IF location = None
              THEN BuildUniformFromLenient(uniform_link, i + 1,
                     [acc EXCEPT !.events =
                        looked \o << Event("use_program", u, p, None) >>])
              ELSE BuildUniformFromLenient(uniform_link, i + 1,
                     [err |-> None,
                      locations |-> MapInsert(acc.locations, p, location[1]),
                      events |-> looked \o
                        << Event("uniform_initialize_callback", u, p, location),
                           Event("use_program", u, p, None) >>])

\* the body of build_uniform's loop over the owning programs, from owner i on
RECURSIVE BuildUniformFrom(_, _, _)
BuildUniformFrom(uniform_link, i, acc) ==
    IF i > Len(uniform_link.program_ids) THEN acc
    ELSE
      LET p == uniform_link.program_ids[i]
          u == uniform_link.uniform_id
      IN IF p \notin DOMAIN programs
         THEN [acc EXCEPT !.err = Some("ProgramNotFoundBuildUniformsError")]
         ELSE
           LET location == GetUniformLocation(programs[p], UniformName[u])
               looked == acc.events \o
                   << Event("use_program", u, p, Some(p)),
                      Event("get_uniform_location", u, p, location) >>
           IN IF location = None
              THEN [acc EXCEPT
                      !.err = Some("UniformLocationNotFoundBuildUniformsError"),
                      !.events = looked]
              ELSE BuildUniformFrom(uniform_link, i + 1,
                     [err |-> None,
                      locations |-> MapInsert(acc.locations, p, location[1]),
                      events |-> looked \o
                        << Event("uniform_initialize_callback", u, p, location),
                           Event("use_program", u, p, None) >>])

\* UniformLink::update_callback: the initialize callback when the link is set
\* to use it for updates, else the update callback it was given, if any
UniformLinkUpdateCallback(uniform_link) ==
    IF uniform_link.use_init_callback_for_update
    THEN Some(uniform_link.initialize_callback)
    ELSE uniform_link.update_callback

BuildUniform(uniform_link) ==
    IF gl = None
    THEN [err |-> Some("NoContextBuildUniformsError"),
          locations |-> EmptyMap, events |-> << >>]
    ELSE BuildUniformFrom(uniform_link, 1,
             [err |-> None, locations |-> EmptyMap, events |-> << >>])

BuildUniforms ==
    /\ pc = "build_uniforms"
    /\ \E uniform_link \in todo :
         LET got == BuildUniform(uniform_link)
         IN /\ calls' = calls \o got.events
            /\ IF got.err = None
               THEN /\ uniforms' = MapInsert(uniforms, uniform_link.uniform_id,
                          [program_ids |-> uniform_link.program_ids,
                           uniform_id |-> uniform_link.uniform_id,
                           uniform_locations |-> got.locations,
                           initialize_callback |->
                               uniform_link.initialize_callback,
                           update_callback |->
                               UniformLinkUpdateCallback(uniform_link),
                           should_update_callback |->
                               uniform_link.should_update_callback])
                    /\ Continue(uniform_link)
               ELSE Fail(got.err[1]) /\ UNCHANGED uniforms
    /\ UNCHANGED <<settings, gl, sources, links, shaders, programs,
                   vertex_array_objects, buffers, attributes, textures,
                   framebuffers, transform_feedbacks, latest_framebuffer_link>>
    /\ UNCHANGED <<runtime, animation>>
    /\ HandNow

(***************************************************************************)
(* Stages 7 and 8: textures and framebuffers                               *)
(***************************************************************************)
CreateTextures ==
    /\ pc = "create_textures"
    /\ \E texture_link \in todo :
         LET id == texture_link.texture_id
             webgl_texture == <<id, texture_link.callback>>
         IN /\ calls' = Append(calls, Event("create_texture", id, "", None))
            /\ textures' = MapInsert(textures, id,
                   [texture_id |-> id, webgl_texture |-> webgl_texture])
            /\ Continue(texture_link)
    /\ UNCHANGED <<settings, gl, sources, links, shaders, programs,
                   vertex_array_objects, buffers, attributes, uniforms,
                   framebuffers, transform_feedbacks, latest_framebuffer_link>>
    /\ UNCHANGED <<runtime, animation>>
    /\ HandStageNow

\* the texture handle create_framebuffers hands to the link's callback:
\* texture_id().and_then(|id| textures.get(&id)).map(webgl_texture)
FramebufferTexture(framebuffer_link) ==
    IF framebuffer_link.texture_id = None THEN None
    ELSE IF framebuffer_link.texture_id[1] \notin DOMAIN textures THEN None
    ELSE Some(textures[framebuffer_link.texture_id[1]].webgl_texture)

\* create_framebuffers refusing a framebuffer that gets no texture
CreateFramebuffersStrict ==
    /\ pc = "create_framebuffers"
    /\ \E framebuffer_link \in todo :
         LET id == framebuffer_link.framebuffer_id
             webgl_texture == FramebufferTexture(framebuffer_link)
             webgl_framebuffer ==
                 <<id, framebuffer_link.callback, webgl_texture>>
         IN IF webgl_texture = None
            THEN Fail("NoContextCreateFramebufferError")
                 /\ UNCHANGED <<calls, framebuffers>>
            ELSE /\ calls' = Append(calls,
                        Event("create_framebuffer", id, "", webgl_texture))
                 /\ framebuffers' = MapInsert(framebuffers, id,
                        [framebuffer_id |-> id,
                         webgl_framebuffer |-> webgl_framebuffer])
                 /\ Continue(framebuffer_link)
    /\ UNCHANGED <<settings, gl, sources, links, shaders, programs,
                   vertex_array_objects, buffers, attributes, uniforms,
                   textures, transform_feedbacks, latest_framebuffer_link>>
    /\ UNCHANGED <<runtime, animation>>
    /\ HandStageNow

CreateFramebuffers ==
    /\ pc = "create_framebuffers"
    /\ \E framebuffer_link \in todo :
         LET id == framebuffer_link.framebuffer_id
             webgl_texture == FramebufferTexture(framebuffer_link)
             webgl_framebuffer ==
                 <<id, framebuffer_link.callback, webgl_texture>>
         IN /\ calls' = Append(calls,
                   Event("create_framebuffer", id, "", webgl_texture))
            /\ framebuffers' = MapInsert(framebuffers, id,
                   [framebuffer_id |-> id,
                    webgl_framebuffer |-> webgl_framebuffer])
            /\ Continue(framebuffer_link)
    /\ UNCHANGED <<settings, gl, sources, links, shaders, programs,
                   vertex_array_objects, buffers, attributes, uniforms,
                   textures, transform_feedbacks, latest_framebuffer_link>>
    /\ UNCHANGED <<runtime, animation>>
    /\ HandStageNow

(***************************************************************************)
(* Stage 9: transform feedbacks                                            *)
(***************************************************************************)
CreateTransformFeedbacks ==
    /\ pc = "create_transform_feedbacks"
    \* gl.create_transform_feedback answers with an object or with none
    /\ \E link \in todo, outcome \in {"created", "none"} :
         LET id == link.transform_feedback_id
         IN /\ calls' = Append(calls,
                   Event("create_transform_feedback", id, "", None))
            /\ IF outcome = "created"
               THEN /\ transform_feedbacks' =
                          MapInsert(transform_feedbacks, id, <<"tf", id>>)
                    /\ Continue(link)
               ELSE /\ Fail("TransformFeedbackNotFoundTransformFeedbackError")
                    /\ UNCHANGED transform_feedbacks
    /\ UNCHANGED <<settings, gl, sources, links, shaders, programs,
                   vertex_array_objects, buffers, attributes, uniforms,
                   textures, framebuffers, latest_framebuffer_link>>
    /\ UNCHANGED <<runtime, animation, clock>>

(***************************************************************************)
(* The end of build: the Renderer is put together from the builder's fields *)
(***************************************************************************)
\* Assemble without the check of the render callback
AssembleWithoutRenderCallback ==
    /\ pc = "assemble"
    /\ IF canvas = None THEN Fail("NoCanvasBuildError")
       ELSE IF gl = None THEN Fail("NoContextBuildError")
       ELSE /\ pc' = "done"
            /\ todo' = {}
            /\ result' = Some("Ok")
            /\ renderer' = Some(
                 [ fragment_shaders |-> fragment_shaders,
                   vertex_shaders |-> vertex_shaders,
                   programs |-> programs,
                   uniforms |-> uniforms,
                   buffers |-> buffers,
                   textures |-> textures,
                   framebuffers |-> framebuffers,
                   attributes |-> attributes,
                   vertex_array_objects |-> vertex_array_objects,
                   transform_feedbacks |-> transform_feedbacks ])
    /\ UNCHANGED <<settings, gl, sources, links, shaders, tables, calls,
                   latest_framebuffer_link>>
    /\ UNCHANGED <<runtime, animation, clock>>

Assemble ==
    /\ pc = "assemble"
    /\ IF canvas = None THEN Fail("NoCanvasBuildError")
       ELSE IF gl = None THEN Fail("NoContextBuildError")
       ELSE IF render_callback = None THEN Fail("NoRenderCallbackBuildError")
       ELSE /\ pc' = "done"
            /\ todo' = {}
            /\ result' = Some("Ok")
            /\ renderer' = Some(
                 [ fragment_shaders |-> fragment_shaders,
                   vertex_shaders |-> vertex_shaders,
                   programs |-> programs,
                   uniforms |-> uniforms,
                   buffers |-> buffers,
                   textures |-> textures,
                   framebuffers |-> framebuffers,
                   attributes |-> attributes,
                   vertex_array_objects |-> vertex_array_objects,
                   transform_feedbacks |-> transform_feedbacks ])
    /\ UNCHANGED <<settings, gl, sources, links, shaders, tables, calls,
                   latest_framebuffer_link>>
    /\ UNCHANGED <<runtime, animation, clock>>

Next ==
    \/ SetCanvas
    \/ SetRenderCallback
    \/ SetUserCtx
    \/ AddVertexShaderSrc
    \/ AddFragmentShaderSrc
    \/ AddProgramLink
    \/ AddBufferLink
    \/ AddAttributeLink
    \/ AddTextureLink
    \/ AddFramebufferLink
    \/ AddUniformLink
    \/ AddTransformFeedbackLink
    \/ SaveWebglContextFromCanvas
    \/ CompileFragmentShaders
    \/ CompileVertexShaders
    \/ LinkPrograms
    \/ CreateBuffers
    \/ CreateAttributes
    \/ BuildUniforms
    \/ CreateTextures
    \/ CreateFramebuffers
    \/ CreateTransformFeedbacks
    \/ Assemble

Spec == Init /\ [][Next]_vars

(***************************************************************************)
(* The builder of the webgl crate: shaders and programs only. Its position  *)
(* is kept in pc under names of its own, and `result` also holds the error  *)
(* its set_canvas returns.                                                  *)
(***************************************************************************)
\* set_canvas gets the context itself and returns its error
WebglSetCanvas ==
    /\ pc = "webgl_registering"
    /\ \E outcome \in ContextOutcomes :
         LET got == ContextFromCanvas(outcome)
         IN IF got.ok
            THEN /\ gl' = Some("gl")
                 /\ canvas' = Some("canvas")
                 /\ result' = None
            ELSE /\ result' = Some(got.err)
                 /\ UNCHANGED <<gl, canvas>>
    /\ UNCHANGED <<render_callback, user_ctx, sources, links, shaders,
                   tables, pc, todo, renderer, calls, latest_framebuffer_link>>
    /\ UNCHANGED <<runtime, animation, clock>>

WebglAddFragmentShaderSrc ==
    /\ pc = "webgl_registering"
    /\ \E input \in FragmentShaderInputs :
         fragment_shader_sources' =
             MapInsert(fragment_shader_sources, input[1], input[2])
    /\ UNCHANGED <<settings, gl, vertex_shader_sources, links, shaders,
                   tables, control, calls, latest_framebuffer_link>>
    /\ UNCHANGED <<runtime, animation, clock>>

WebglAddVertexShaderSrc ==
    /\ pc = "webgl_registering"
    /\ \E input \in VertexShaderInputs :
         vertex_shader_sources' =
             MapInsert(vertex_shader_sources, input[1], input[2])
    /\ UNCHANGED <<settings, gl, fragment_shader_sources, links, shaders,
                   tables, control, calls, latest_framebuffer_link>>
    /\ UNCHANGED <<runtime, animation, clock>>

\* program_ids_to_link.insert: a link is a pair of shader identifiers
WebglAddProgramLink ==
    /\ pc = "webgl_registering"
    /\ \E v \in VertexShaderIds, f \in FragmentShaderIds :
         LET link == [vertex_shader_id |-> v, fragment_shader_id |-> f]
         IN program_links' = HashSetInsert(program_links, link,
                {held \in program_links : held = link})
    /\ UNCHANGED <<settings, gl, sources, buffer_links, attribute_links,
                   texture_links, framebuffer_links, uniform_links,
                   transform_feedback_links, shaders, tables, control, calls,
                   latest_framebuffer_link>>
    /\ UNCHANGED <<runtime, animation, clock>>

WebglSetRenderCallback ==
    /\ pc = "webgl_registering"
    /\ render_callback' = Some("render")
    /\ UNCHANGED <<gl, canvas, user_ctx, sources, links, shaders, tables,
                   control, calls, latest_framebuffer_link>>
    /\ UNCHANGED <<runtime, animation, clock>>

WebglSetUserCtx ==
    /\ pc = "webgl_registering"
    /\ user_ctx' = Some("ctx")
    /\ UNCHANGED <<gl, canvas, render_callback, sources, links, shaders,
                   tables, control, calls, latest_framebuffer_link>>
    /\ UNCHANGED <<runtime, animation, clock>>

\* the steps of the webgl crate's build, in the order build runs them
WebglStageOrder ==
    << "webgl_compile_fragment_shaders",
       "webgl_compile_vertex_shaders",
       "webgl_link_programs",
       "webgl_assemble" >>

WebglItems(stage) ==
    CASE stage = "webgl_compile_fragment_shaders" ->
           DOMAIN fragment_shader_sources
      [] stage = "webgl_compile_vertex_shaders" -> DOMAIN vertex_shader_sources
      [] stage = "webgl_link_programs" -> program_links
      [] OTHER -> {}

WebglFail(error) ==
    /\ pc' = "webgl_done"
    /\ todo' = {}
    /\ result' = Some(error)
    /\ renderer' = None

\* build stands next at the first step from the i-th on that has something to
\* iterate over, or at the last
WebglEnter(i) ==
    LET at == CHOOSE k \in i..Len(WebglStageOrder) :
                 /\ k = Len(WebglStageOrder) \/ WebglItems(WebglStageOrder[k]) # {}
                 /\ \A j \in i..(k - 1) : WebglItems(WebglStageOrder[j]) = {}
    IN /\ pc' = WebglStageOrder[at]
       /\ todo' = WebglItems(WebglStageOrder[at])

WebglContinue(item) ==
    IF todo \ {item} = {}
    THEN WebglEnter(1 + CHOOSE k \in 1..Len(WebglStageOrder) :
                           WebglStageOrder[k] = pc)
    ELSE /\ todo' = todo \ {item}
         /\ UNCHANGED pc

\* build is called: the builder is consumed
WebglBuild ==
    /\ pc = "webgl_registering"
    /\ WebglEnter(1)
    /\ result' = None
    /\ UNCHANGED <<settings, gl, sources, links, shaders, tables, renderer,
                   calls, latest_framebuffer_link>>
    /\ UNCHANGED <<runtime, animation, clock>>

WebglCompileFragmentShaders ==
    /\ pc = "webgl_compile_fragment_shaders"
    /\ \E id \in todo, outcome \in CompileOutcomes :
         LET got == CompileShader(fragment_shader_sources[id], outcome)
         IN IF got.ok
            THEN /\ fragment_shaders' = MapInsert(fragment_shaders, id, got.shader)
                 /\ WebglContinue(id)
                 /\ UNCHANGED <<result, renderer>>
            ELSE WebglFail(got.err) /\ UNCHANGED fragment_shaders
    /\ UNCHANGED <<settings, gl, sources, links, vertex_shaders, tables, calls,
                   latest_framebuffer_link>>
    /\ UNCHANGED <<runtime, animation, clock>>

WebglCompileVertexShaders ==
    /\ pc = "webgl_compile_vertex_shaders"
    /\ \E id \in todo, outcome \in CompileOutcomes :
         LET got == CompileShader(vertex_shader_sources[id], outcome)
         IN IF got.ok
            THEN /\ vertex_shaders' = MapInsert(vertex_shaders, id, got.shader)
                 /\ WebglContinue(id)
                 /\ UNCHANGED <<result, renderer>>
            ELSE WebglFail(got.err) /\ UNCHANGED vertex_shaders
    /\ UNCHANGED <<settings, gl, sources, links, fragment_shaders, tables, calls,
                   latest_framebuffer_link>>
    /\ UNCHANGED <<runtime, animation, clock>>

WebglLinkProgram(outcome) ==
    IF gl = None THEN Some("NoContextLinkProgramError")
    ELSE CASE outcome = "no_program" -> Some("NoProgramLinkProgramError")
           [] outcome = "error_with_log" -> Some("KnownErrorLinkProgramError")
           [] outcome = "error_without_log" ->
                Some("UnknownErrorLinkProgramError")
           [] OTHER -> None

WebglLinkPrograms ==
    /\ pc = "webgl_link_programs"
    /\ \E program_link \in todo, outcome \in {"linked", "no_program",
                                            "error_with_log",
                                            "error_without_log"} :
         LET v == program_link.vertex_shader_id
             f == program_link.fragment_shader_id
             err == IF v \notin DOMAIN vertex_shaders
                    THEN Some("VertexShaderNotFoundLinkProgramError")
                    ELSE IF f \notin DOMAIN fragment_shaders
                    THEN Some("FragmentShaderNotFoundLinkProgramError")
                    ELSE WebglLinkProgram(outcome)
         IN IF err = None
            THEN /\ programs' = MapInsert(programs, <<v, f>>,
                        [vertex |-> vertex_shaders[v],
                         fragment |-> fragment_shaders[f]])
                 /\ WebglContinue(program_link)
                 /\ UNCHANGED <<result, renderer>>
            ELSE WebglFail(err[1]) /\ UNCHANGED programs
    /\ UNCHANGED <<settings, gl, sources, links, shaders,
                   vertex_array_objects, buffers, attributes, uniforms,
                   textures, framebuffers, transform_feedbacks, calls,
                   latest_framebuffer_link>>
    /\ UNCHANGED <<runtime, animation, clock>>

WebglAssemble ==
    /\ pc = "webgl_assemble"
    /\ IF canvas = None THEN WebglFail("NoCanvasBuildError")
       ELSE IF gl = None THEN WebglFail("NoContextBuildError")
       ELSE IF render_callback = None
       THEN WebglFail("NoRenderCallbackBuildError")
       ELSE /\ pc' = "webgl_done"
            /\ todo' = {}
            /\ result' = Some("Ok")
            /\ renderer' = Some(
                 [ fragment_shaders |-> fragment_shaders,
                   vertex_shaders |-> vertex_shaders,
                   programs |-> programs ])
    /\ UNCHANGED <<settings, gl, sources, links, shaders, tables, calls,
                   latest_framebuffer_link>>
    /\ UNCHANGED <<runtime, animation, clock>>

NextWebgl ==
    \/ WebglSetCanvas
    \/ WebglAddFragmentShaderSrc
    \/ WebglAddVertexShaderSrc
    \/ WebglAddProgramLink
    \/ WebglSetRenderCallback
    \/ WebglSetUserCtx
    \/ WebglBuild
    \/ WebglCompileFragmentShaders
    \/ WebglCompileVertexShaders
    \/ WebglLinkPrograms
    \/ WebglAssemble

\* a builder of either crate, after default()
InitRepo ==
    \E first \in {"registering", "webgl_registering"} :
      /\ canvas = None
      /\ gl = None
      /\ render_callback = None
      /\ user_ctx = None
      /\ vertex_shader_sources = EmptyMap
      /\ fragment_shader_sources = EmptyMap
      /\ program_links = {}
      /\ buffer_links = {}
      /\ attribute_links = {}
      /\ texture_links = {}
      /\ framebuffer_links = {}
      /\ uniform_links = {}
      /\ transform_feedback_links = {}
      /\ vertex_shaders = EmptyMap
      /\ fragment_shaders = EmptyMap
      /\ programs = EmptyMap
      /\ vertex_array_objects = EmptyMap
      /\ buffers = EmptyMap
      /\ attributes = EmptyMap
      /\ uniforms = EmptyMap
      /\ textures = EmptyMap
      /\ framebuffers = EmptyMap
      /\ transform_feedbacks = EmptyMap
      /\ pc = first
      /\ todo = {}
      /\ result = None
      /\ renderer = None
      /\ calls = << >>
      /\ latest_framebuffer_link = EmptyMap
      /\ now = 0
      /\ stage_now = 0
      /\ timestamps = << >>
      /\ panicked = FALSE
      /\ steps = 0
      /\ handle = "none"
      /\ is_animating = FALSE
      /\ pending_frames = 0

NextRepo == Next \/ NextWebgl

SpecRepo == InitRepo /\ [][NextRepo]_vars

(***************************************************************************)
(* The built Renderer: the calls made on it after build                    *)
(***************************************************************************)
\* most calls made on a built renderer
MaxCalls == 2

UniformIds == DOMAIN UniformName

\* build has returned a renderer and no call on it has panicked
Built == pc = "done" /\ renderer # None /\ ~panicked

\* Renderer::now: performance.now() answers the time of the last reading or a
\* later one
ClockReadings == {now, now + 1}

\* a call of a method of the renderer, made by its user; the log entries of
\* a call start with the call itself
CallOf(op, id) == Event(op, id, "-", None)
\* ... made by another method of the renderer
CallBy(caller, op, id) == Event(op, id, "-", Some(caller))

\* Uniform::update, from the owning program i on: the program is made current
\* and the callback is invoked with the time `t`
RECURSIVE UniformUpdateFrom(_, _, _, _, _)
UniformUpdateFrom(uniform, callback, t, i, acc) ==
    IF i > Len(uniform.program_ids) THEN acc
    ELSE LET p == uniform.program_ids[i]
         IN UniformUpdateFrom(uniform, callback, t, i + 1,
              acc \o << Event("use_program", uniform.uniform_id, p, Some(p)),
                        Event("uniform_update_callback", uniform.uniform_id, p,
                              <<callback, t>>) >>)

\* the owning programs made current one after the other, nothing else
RECURSIVE ActivateFrom(_, _, _)
ActivateFrom(uniform, i, acc) ==
    IF i > Len(uniform.program_ids) THEN acc
    ELSE LET p == uniform.program_ids[i]
         IN ActivateFrom(uniform, i + 1,
              Append(acc, Event("use_program", uniform.uniform_id, p, Some(p))))

\* Uniform::update going on to the callback whatever the should-update
\* callback returns
UniformUpdateUnguarded(uniform, t, answer, activates) ==
    IF uniform.update_callback = None THEN << >>
    ELSE UniformUpdateFrom(uniform, uniform.update_callback[1], t, 1,
           IF uniform.should_update_callback = None THEN << >>
           ELSE << Event("uniform_should_update_callback",
                         uniform.uniform_id, "-", <<answer>>) >>)

\* Uniform::update. Nothing is done without an update callback. `answer` is
\* what the should-update callback returns when there is one; when it returns
\* false no callback is invoked, and the owning programs are made current or
\* not (`activates`).
UniformUpdate(uniform, t, answer, activates) ==
    IF uniform.update_callback = None THEN << >>
    ELSE IF uniform.should_update_callback = None
    THEN UniformUpdateFrom(uniform, uniform.update_callback[1], t, 1, << >>)
    ELSE LET asked == << Event("uniform_should_update_callback",
                               uniform.uniform_id, "-", <<answer>>) >>
         IN IF answer
            THEN UniformUpdateFrom(uniform, uniform.update_callback[1], t, 1,
                                   asked)
            ELSE IF activates THEN ActivateFrom(uniform, 1, asked)
            ELSE asked

\* use_program_with_vao returning without a word when it finds no program or
\* no vertex array object
UseProgramWithVaoLenient ==
    /\ Built
    /\ steps < MaxCalls
    /\ steps' = steps + 1
    /\ \E program_id \in ProgramIds :
         LET r == renderer[1]
             called == Append(calls, CallOf("use_program_with_vao", program_id))
         IN IF \/ program_id \notin DOMAIN r.programs
               \/ program_id \notin DOMAIN r.vertex_array_objects
            THEN calls' = called
            ELSE calls' = called \o
                      << Event("use_program", "-", program_id,
                               Some(program_id)),
                         Event("bind_vertex_array", "-", program_id,
                               Some(r.vertex_array_objects[program_id])) >>
    /\ UNCHANGED clock
    /\ UNCHANGED <<settings, gl, sources, links, shaders, tables, control,
                   latest_framebuffer_link, now, panicked, animation>>

\* Renderer::use_program_with_vao
UseProgramWithVao ==
    /\ Built
    /\ steps < MaxCalls
    /\ steps' = steps + 1
    /\ \E program_id \in ProgramIds :
         LET r == renderer[1]
             called == Append(calls, CallOf("use_program_with_vao", program_id))
         IN IF \/ program_id \notin DOMAIN r.programs
               \/ program_id \notin DOMAIN r.vertex_array_objects
            THEN /\ panicked' = TRUE
                 /\ calls' = called
            ELSE /\ calls' = called \o
                      << Event("use_program", "-", program_id,
                               Some(program_id)),
                         Event("bind_vertex_array", "-", program_id,
                               Some(r.vertex_array_objects[program_id])) >>
                 /\ UNCHANGED panicked
    /\ UNCHANGED clock
    /\ UNCHANGED <<settings, gl, sources, links, shaders, tables, control,
                   latest_framebuffer_link, now, animation>>

\* update_uniform taking the uniform out of the table (remove) where the code
\* borrows it (get)
UpdateUniformTaking ==
    /\ Built
    /\ steps < MaxCalls
    /\ steps' = steps + 1
    /\ \E uniform_id \in UniformIds, t \in ClockReadings,
          answer \in BOOLEAN, activates \in BOOLEAN :
         LET r == renderer[1]
             called == Append(calls, CallOf("update_uniform", uniform_id))
         IN /\ now' = t
            /\ IF uniform_id \notin DOMAIN r.uniforms
               THEN /\ panicked' = TRUE
                    /\ calls' = called
                    /\ UNCHANGED renderer
               ELSE /\ calls' = called \o
                         UniformUpdate(r.uniforms[uniform_id], t, answer,
                                       activates)
                    /\ renderer' = Some([r EXCEPT !.uniforms =
                           [u \in DOMAIN r.uniforms \ {uniform_id} |->
                               r.uniforms[u]]])
                    /\ UNCHANGED panicked
    /\ UNCHANGED clock
    /\ UNCHANGED <<settings, gl, sources, links, shaders, tables, pc, todo,
                   result, latest_framebuffer_link, animation>>

\* Renderer::update_uniform
UpdateUniform ==
    /\ Built
    /\ steps < MaxCalls
    /\ steps' = steps + 1
    /\ \E uniform_id \in UniformIds, t \in ClockReadings,
          answer \in BOOLEAN, activates \in BOOLEAN :
         LET r == renderer[1]
             called == Append(calls, CallOf("update_uniform", uniform_id))
         IN /\ now' = t
            /\ IF uniform_id \notin DOMAIN r.uniforms
               THEN /\ panicked' = TRUE
                    /\ calls' = called
               ELSE /\ calls' = called \o
                         UniformUpdate(r.uniforms[uniform_id], t, answer,
                                       activates)
                    /\ UNCHANGED panicked
    /\ UNCHANGED clock
    /\ UNCHANGED <<settings, gl, sources, links, shaders, tables, control,
                   latest_framebuffer_link, animation>>

\* the loop of update_uniforms over the uniform table, taken in the order
\* `order`: each iteration is one update_uniform, which reads the clock
RECURSIVE UpdateUniformsFrom(_, _, _, _, _, _)
UpdateUniformsFrom(order, i, advances, answers, activates, acc) ==
    IF i > Len(order) THEN acc
    ELSE LET uniform_id == order[i]
             t == acc.now + advances[uniform_id]
         IN UpdateUniformsFrom(order, i + 1, advances, answers, activates,
               [now |-> t,
                events |-> acc.events
                    \o << CallBy("update_uniforms", "update_uniform",
                                 uniform_id) >>
                    \o UniformUpdate(renderer[1].uniforms[uniform_id], t,
                                     answers[uniform_id],
                                     activates[uniform_id])])

\* an iteration that may visit a key more than once and miss another
OrdersWithRepeats(keys) == [1..Cardinality(keys) -> keys]

\* the orders in which a map with the keys `keys` can be iterated over
Orders(keys) ==
    {order \in [1..Cardinality(keys) -> keys] :
        \A i, j \in DOMAIN order : i # j => order[i] # order[j]}

\* Renderer::update_uniforms
UpdateUniforms ==
    /\ Built
    /\ steps < MaxCalls
    /\ steps' = steps + 1
    /\ LET ids == DOMAIN renderer[1].uniforms
       IN \E order \in Orders(ids), advances \in [ids -> {0, 1}],
             answers \in [ids -> BOOLEAN], activates \in [ids -> BOOLEAN] :
            LET got == UpdateUniformsFrom(order, 1, advances, answers,
                           activates,
                           [now |-> now,
                            events |-> << CallOf("update_uniforms", "-") >>])
            IN /\ calls' = calls \o got.events
               /\ now' = got.now
    /\ UNCHANGED clock
    /\ UNCHANGED <<settings, gl, sources, links, shaders, tables, control,
                   latest_framebuffer_link, panicked, animation>>

\* Renderer::render
Render ==
    /\ Built
    /\ steps < MaxCalls
    /\ steps' = steps + 1
    /\ calls' = calls \o << CallOf("render", "-"),
                            Event("render_callback", "-", "-",
                                  render_callback) >>
    /\ UNCHANGED clock
    /\ UNCHANGED <<settings, gl, sources, links, shaders, tables, control,
                   latest_framebuffer_link, now, panicked, animation>>

\* a caller that registers shader sources, programs and uniforms, builds and
\* then uses the renderer
NextRuntime ==
    \/ SetCanvas
    \/ SetRenderCallback
    \/ AddVertexShaderSrc
    \/ AddFragmentShaderSrc
    \/ AddProgramLink
    \/ AddUniformLink
    \/ SaveWebglContextFromCanvas
    \/ CompileFragmentShaders
    \/ CompileVertexShaders
    \/ LinkPrograms
    \/ BuildUniforms
    \/ Assemble
    \/ UseProgramWithVao
    \/ UpdateUniform
    \/ UpdateUniforms
    \/ Render

SpecRuntime == Init /\ [][NextRuntime]_vars

(***************************************************************************)
(* The animation handle                                                    *)
(***************************************************************************)
\* most calls made on an animation handle and frames the host runs
MaxFrames == 5

\* Renderer::into_animation_handle: the renderer moves into a handle, which
\* starts Idle
IntoAnimationHandle ==
    /\ Built
    /\ handle = "none"
    /\ handle' = "live"
    /\ is_animating' = FALSE
    /\ pending_frames' = 0
    /\ UNCHANGED clock
    /\ UNCHANGED <<settings, gl, sources, links, shaders, tables, control,
                   calls, latest_framebuffer_link, runtime>>

\* start_animating registering a frame callback whatever the state
StartAnimatingAgain ==
    /\ handle = "live"
    /\ steps < MaxFrames
    /\ steps' = steps + 1
    /\ is_animating' = TRUE
    /\ pending_frames' = pending_frames + 1
    /\ calls' = calls \o
           << CallOf("start_animating", "-"),
              Event("request_animation_frame", "-", "-", None) >>
    /\ UNCHANGED clock
    /\ UNCHANGED <<settings, gl, sources, links, shaders, tables, control,
                   latest_framebuffer_link, now, panicked, handle>>

\* start_animating: Idle to Animating, with the frame callback registered
\* with the host; nothing when already Animating
StartAnimating ==
    /\ handle = "live"
    /\ steps < MaxFrames
    /\ steps' = steps + 1
    /\ IF is_animating
       THEN /\ calls' = Append(calls, CallOf("start_animating", "-"))
            /\ UNCHANGED <<is_animating, pending_frames>>
       ELSE /\ is_animating' = TRUE
            /\ pending_frames' = pending_frames + 1
            /\ calls' = calls \o
                   << CallOf("start_animating", "-"),
                      Event("request_animation_frame", "-", "-", None) >>
    /\ UNCHANGED clock
    /\ UNCHANGED <<settings, gl, sources, links, shaders, tables, control,
                   latest_framebuffer_link, now, panicked, handle>>

\* stop_animating leaving the registered frame callback with the host
StopAnimatingFlagOnly ==
    /\ handle = "live"
    /\ steps < MaxFrames
    /\ steps' = steps + 1
    /\ is_animating' = FALSE
    /\ calls' = Append(calls, CallOf("stop_animating", "-"))
    /\ UNCHANGED clock
    /\ UNCHANGED <<settings, gl, sources, links, shaders, tables, control,
                   latest_framebuffer_link, now, panicked, handle,
                   pending_frames>>

\* stop_animating: the pending frame registration is cancelled, Animating to
\* Idle; nothing when Idle
StopAnimating ==
    /\ handle = "live"
    /\ steps < MaxFrames
    /\ steps' = steps + 1
    /\ IF is_animating
       THEN /\ is_animating' = FALSE
            /\ pending_frames' = 0
            /\ calls' = calls \o
                   << CallOf("stop_animating", "-"),
                      Event("cancel_animation_frame", "-", "-", None) >>
       ELSE /\ calls' = Append(calls, CallOf("stop_animating", "-"))
            /\ UNCHANGED <<is_animating, pending_frames>>
    /\ UNCHANGED clock
    /\ UNCHANGED <<settings, gl, sources, links, shaders, tables, control,
                   latest_framebuffer_link, now, panicked, handle>>

\* what the frame callbacks registered with the host do when it runs them:
\* each registers itself for the next frame and invokes the animation callback
RECURSIVE FrameCallbacks(_)
FrameCallbacks(registered) ==
    IF registered = 0 THEN << >>
    ELSE << Event("request_animation_frame", "-", "-", None),
            Event("animation_callback", "-", "-", None) >>
         \o FrameCallbacks(registered - 1)

\* the host runs a frame: every frame callback registered for it is run
FrameTick ==
    /\ handle # "none"
    /\ pending_frames > 0
    /\ steps < MaxFrames
    /\ steps' = steps + 1
    /\ calls' = calls \o << Event("frame_tick", "-", "-", None) >>
                      \o FrameCallbacks(pending_frames)
    /\ UNCHANGED clock
    /\ UNCHANGED <<settings, gl, sources, links, shaders, tables, control,
                   latest_framebuffer_link, now, panicked, animation>>

\* the handle dropped with its frame callback left registered with the host
DropHandleLeaving ==
    /\ handle = "live"
    /\ handle' = "dropped"
    /\ is_animating' = FALSE
    /\ calls' = Append(calls, Event("drop", "-", "-", None))
    /\ UNCHANGED clock
    /\ UNCHANGED <<settings, gl, sources, links, shaders, tables, control,
                   latest_framebuffer_link, runtime, pending_frames>>

\* the handle is dropped: a pending frame registration is cancelled
DropHandle ==
    /\ handle = "live"
    /\ handle' = "dropped"
    /\ is_animating' = FALSE
    /\ pending_frames' = 0
    /\ calls' = calls \o
           << Event("drop", "-", "-", None) >>
           \o IF pending_frames > 0
              THEN << Event("cancel_animation_frame", "-", "-", None) >>
              ELSE << >>
    /\ UNCHANGED clock
    /\ UNCHANGED <<settings, gl, sources, links, shaders, tables, control,
                   latest_framebuffer_link, runtime>>

\* a caller that builds a renderer without resources and animates it
NextAnimation ==
    \/ SetCanvas
    \/ SetRenderCallback
    \/ SaveWebglContextFromCanvas
    \/ Assemble
    \/ IntoAnimationHandle
    \/ StartAnimating
    \/ StopAnimating
    \/ FrameTick
    \/ DropHandle

SpecAnimation == Init /\ [][NextAnimation]_vars

(***************************************************************************)
(* Builders that hold programs, buffers and attributes                     *)
(***************************************************************************)
\* a builder on which set_canvas, set_render_callback, add_vertex_shader_src,
\* add_fragment_shader_src, add_program_link, add_buffer_link and
\* add_attribute_link have been called, any number of times: the link sets
\* hold no two equal links
InitAttributes ==
    /\ canvas = Some("canvas")
    /\ gl = None
    /\ render_callback = Some("render")
    /\ user_ctx = None
    /\ \E input \in VertexShaderInputs :
         vertex_shader_sources = MapInsert(EmptyMap, input[1], input[2])
    /\ \E input \in FragmentShaderInputs :
         fragment_shader_sources = MapInsert(EmptyMap, input[1], input[2])
    /\ program_links \in SUBSET
         { [program_id |-> p, vertex_shader_id |-> v, fragment_shader_id |-> f] :
             p \in ProgramIds, v \in VertexShaderIds, f \in FragmentShaderIds }
    /\ \A a \in program_links, b \in program_links :
         ProgramLinkEq(a, b) => a = b
    /\ buffer_links \in SUBSET
         { [buffer_id |-> b, callback |-> "cbA"] : b \in BufferIds }
    /\ attribute_links \in SUBSET
         { [program_ids |-> input[1], buffer_id |-> input[2],
            attribute_id |-> input[3]] : input \in AttributeLinkInputs }
    /\ texture_links = {}
    /\ framebuffer_links = {}
    /\ uniform_links = {}
    /\ transform_feedback_links = {}
    /\ vertex_shaders = EmptyMap
    /\ fragment_shaders = EmptyMap
    /\ programs = EmptyMap
    /\ vertex_array_objects = EmptyMap
    /\ buffers = EmptyMap
    /\ attributes = EmptyMap
    /\ uniforms = EmptyMap
    /\ textures = EmptyMap
    /\ framebuffers = EmptyMap
    /\ transform_feedbacks = EmptyMap
    /\ pc = "registering"
    /\ todo = {}
    /\ result = None
    /\ renderer = None
    /\ calls = << >>
    /\ latest_framebuffer_link = EmptyMap
    /\ now = 0
    /\ stage_now = 0
    /\ timestamps = << >>
    /\ panicked = FALSE
    /\ steps = 0
    /\ handle = "none"
    /\ is_animating = FALSE
    /\ pending_frames = 0

\* build on such a builder
NextAttributes ==
    \/ SaveWebglContextFromCanvas
    \/ CompileFragmentShaders
    \/ CompileVertexShaders
    \/ LinkPrograms
    \/ CreateBuffers
    \/ CreateAttributes
    \/ Assemble

SpecAttributes == InitAttributes /\ [][NextAttributes]_vars

(***************************************************************************)
(* Builds during which time passes                                         *)
(***************************************************************************)
MaxTicks == 3

\* window().performance().now() is a monotonic clock: while build runs it
\* goes forward
Tick ==
    /\ now < MaxTicks
    /\ now' = now + 1
    /\ UNCHANGED <<settings, gl, sources, links, shaders, tables, control,
                   calls, latest_framebuffer_link, panicked, steps, animation,
                   clock>>

\* a builder on which set_canvas, set_render_callback, add_vertex_shader_src,
\* add_fragment_shader_src and the add_*_link functions of programs, buffers,
\* attributes, uniforms, textures and framebuffers have been called, any
\* number of times
InitClock ==
    /\ canvas = Some("canvas")
    /\ gl = None
    /\ render_callback = Some("render")
    /\ user_ctx = None
    /\ vertex_shader_sources = MapInsert(EmptyMap, "vs1", "all")
    /\ fragment_shader_sources = MapInsert(EmptyMap, "fs1", "frag")
    /\ program_links \in SUBSET
         { [program_id |-> p, vertex_shader_id |-> "vs1",
            fragment_shader_id |-> "fs1"] : p \in ProgramIds }
    /\ buffer_links \in SUBSET
         { [buffer_id |-> b, callback |-> "cbA"] : b \in BufferIds }
    /\ attribute_links \in SUBSET
         { [program_ids |-> <<"p1", "p2">>, buffer_id |-> "b1",
            attribute_id |-> "a1"] }
    /\ uniform_links \in SUBSET
         { [program_ids |-> <<"p1">>, uniform_id |-> u,
            initialize_callback |-> "initialize", update_callback |-> None,
            should_update_callback |-> None,
            use_init_callback_for_update |-> FALSE] : u \in {"u1", "u2"} }
    /\ texture_links \in SUBSET
         { [texture_id |-> t, callback |-> "cbA"] : t \in TextureIds }
    /\ framebuffer_links \in SUBSET
         { [framebuffer_id |-> fb, texture_id |-> None, callback |-> "cbA"] :
             fb \in FramebufferIds }
    /\ latest_framebuffer_link =
         [fb \in {l.framebuffer_id : l \in framebuffer_links} |->
            CHOOSE l \in framebuffer_links : l.framebuffer_id = fb]
    /\ transform_feedback_links = {}
    /\ vertex_shaders = EmptyMap
    /\ fragment_shaders = EmptyMap
    /\ programs = EmptyMap
    /\ vertex_array_objects = EmptyMap
    /\ buffers = EmptyMap
    /\ attributes = EmptyMap
    /\ uniforms = EmptyMap
    /\ textures = EmptyMap
    /\ framebuffers = EmptyMap
    /\ transform_feedbacks = EmptyMap
    /\ pc = "registering"
    /\ todo = {}
    /\ result = None
    /\ renderer = None
    /\ calls = << >>
    /\ now = 0
    /\ stage_now = 0
    /\ timestamps = << >>
    /\ panicked = FALSE
    /\ steps = 0
    /\ handle = "none"
    /\ is_animating = FALSE
    /\ pending_frames = 0

\* build on such a builder, while the clock goes on
NextClock ==
    \/ SaveWebglContextFromCanvas
    \/ CompileFragmentShaders
    \/ CompileVertexShaders
    \/ LinkPrograms
    \/ CreateBuffers
    \/ CreateAttributes
    \/ BuildUniforms
    \/ CreateTextures
    \/ CreateFramebuffers
    \/ Assemble
    \/ Tick

SpecClock == InitClock /\ [][NextClock]_vars

(***************************************************************************)
(* Vocabulary of the properties                                            *)
(***************************************************************************)
\* the members of RendererBuilderError
RendererBuilderError ==
    { "WebGL2ContextRetrievalError", "WebGL2ContextNotFoundError",
      "WebGL2TypeConversionError", "NoCanvasBuildError", "NoContextBuildError",
      "NoRenderCallbackBuildError", "NoContextCompileShaderError",
      "NoShaderReturnedCompilerShaderError", "KnownErrorCompileShaderError",
      "UnknownErrorCompilerShaderError", "NoContextLinkProgramError",
      "VertexShaderNotFoundLinkProgramError",
      "FragmentShaderNotFoundLinkProgramError",
      "NoProgramLinkLinkProgramError", "NoProgramLinkProgramError",
      "NoVaoLinkProgramError", "CreateProgramLinkProgramError",
      "NoContextBuildUniformsError", "ProgramNotFoundBuildUniformsError",
      "UniformLocationNotFoundBuildUniformsError",
      "NoContextInitializeUniformsError", "CanvasReturnedNoContext",
      "AttributeLocationNotFoundCreateAttributeError",
      "NoContextCreateAttributeError", "ProgramNotFoundCreateAttributeError",
      "VAONotFoundCreateAttributeError", "BufferNotFoundCreateAttributeError",
      "NoContextCreateTextureError", "NoContextCreateFramebufferError",
      "NoContextBuildTransformFeedbackError",
      "TransformFeedbackNotFoundTransformFeedbackError" }

\* the errors that stand for a GPU or browser call that did not succeed
GpuCallErrors ==
    { "WebGL2ContextRetrievalError", "WebGL2ContextNotFoundError",
      "WebGL2TypeConversionError", "NoShaderReturnedCompilerShaderError",
      "KnownErrorCompileShaderError", "UnknownErrorCompilerShaderError",
      "CreateProgramLinkProgramError", "NoVaoLinkProgramError",
      "TransformFeedbackNotFoundTransformFeedbackError" }

Done == pc = "done"
Succeeded == result = Some("Ok")

\* the positions of the log that hold a call `op`
Positions(op) == {i \in DOMAIN calls : calls[i].op = op}
\* ... made for the resource `id`
PositionsOf(op, id) == {i \in Positions(op) : calls[i].id = id}

RegisteredPrograms == {l.program_id : l \in program_links}
RegisteredBuffers == {l.buffer_id : l \in buffer_links}
RegisteredTextures == {l.texture_id : l \in texture_links}

\* the place of a logged call in the pipeline, by the kind of resource it is for
Rank(op) ==
    CASE op = "program_create_callback" -> 1
      [] op = "create_buffer" -> 2
      [] op \in {"get_attrib_location", "bind_vertex_array", "bind_buffer",
                 "enable_vertex_attrib_array", "attribute_create_callback"} -> 3
      [] op \in {"use_program", "get_uniform_location",
                 "uniform_initialize_callback"} -> 4
      [] op = "create_texture" -> 5
      [] op = "create_framebuffer" -> 6
      [] op = "create_transform_feedback" -> 7
      [] OTHER -> 0

ShadersCompiled ==
    /\ DOMAIN fragment_shaders = DOMAIN fragment_shader_sources
    /\ DOMAIN vertex_shaders = DOMAIN vertex_shader_sources
ProgramsLinked ==
    /\ RegisteredPrograms \subseteq DOMAIN programs
    /\ RegisteredPrograms \subseteq DOMAIN vertex_array_objects
UniformsInitialized ==
    \A l \in uniform_links :
      \A k \in DOMAIN l.program_ids :
        \E i \in PositionsOf("uniform_initialize_callback", l.uniform_id) :
          calls[i].prog = l.program_ids[k]

(***************************************************************************)
(* C1: re-registering a link replaces the earlier one: after build the      *)
(* framebuffer stored under an identifier is the one made by the callback   *)
(* of the latest link registered with that identifier.                      *)
(***************************************************************************)
C1_LatestRegistrationWins ==
    renderer # None =>
      \A fb \in DOMAIN renderer[1].framebuffers :
        renderer[1].framebuffers[fb].webgl_framebuffer[2]
            = latest_framebuffer_link[fb].callback

(***************************************************************************)
(* C2 as stated: no uniform initialize callback is invoked before every     *)
(* registered texture and framebuffer creation callback has been invoked.   *)
(***************************************************************************)
C2_TexturesBeforeUniforms ==
    Positions("uniform_initialize_callback") # {} =>
      /\ \A l \in texture_links :
           PositionsOf("create_texture", l.texture_id) # {}
      /\ \A l \in framebuffer_links :
           PositionsOf("create_framebuffer", l.framebuffer_id) # {}

(***************************************************************************)
(* C2 amended: build runs its stages in the order context, fragment         *)
(* shaders, vertex shaders, programs, buffers, attributes, uniforms,        *)
(* textures, framebuffers, transform feedbacks; in particular no texture or *)
(* framebuffer creation callback is invoked before every registered         *)
(* uniform's initialize callback has been invoked for each of its owners.   *)
(***************************************************************************)
C2_StagesInCodeOrder ==
    /\ \A i \in 1..(Len(calls) - 1) :
         Rank(calls[i].op) <= Rank(calls[i + 1].op)
    /\ (DOMAIN fragment_shaders # {} \/ DOMAIN vertex_shaders # {}
          \/ calls # << >>) => gl # None
    /\ DOMAIN vertex_shaders # {} =>
         DOMAIN fragment_shaders = DOMAIN fragment_shader_sources
    /\ calls # << >> => ShadersCompiled
    /\ (Positions("create_texture") # {} \/ Positions("create_framebuffer") # {})
         => UniformsInitialized

C2_Witness ==
    /\ Positions("uniform_initialize_callback") # {}
    /\ Positions("create_texture") # {}

(***************************************************************************)
(* C3: each stage runs only after the tables it reads are fully populated:  *)
(* all shaders are compiled before any program is linked, all programs,     *)
(* vertex array objects and buffers exist before any attribute is created,  *)
(* all programs exist before any uniform is built, and all textures exist   *)
(* before any framebuffer is created.                                       *)
(***************************************************************************)
C3_TablesPopulatedBeforeUse ==
    /\ (pc = "link_programs" \/ Positions("program_create_callback") # {})
         => ShadersCompiled
    /\ (pc = "create_attributes" \/ Positions("get_attrib_location") # {}
          \/ DOMAIN attributes # {})
         => ProgramsLinked /\ RegisteredBuffers \subseteq DOMAIN buffers
    /\ (pc = "build_uniforms" \/ Positions("use_program") # {}
          \/ DOMAIN uniforms # {})
         => ProgramsLinked
    /\ (pc = "create_framebuffers" \/ Positions("create_framebuffer") # {})
         => RegisteredTextures \subseteq DOMAIN textures

C3_Witness ==
    /\ pc = "create_attributes"
    /\ program_links # {}
    /\ buffer_links # {}

(***************************************************************************)
(* C4: build is all-or-nothing: it returns exactly one error and no         *)
(* Renderer, or a Renderer, and a Renderer only when every stage succeeded, *)
(* so that every registered resource is in the Renderer's tables.           *)
(***************************************************************************)
RendererComplete(r) ==
    /\ DOMAIN r.fragment_shaders = DOMAIN fragment_shader_sources
    /\ DOMAIN r.vertex_shaders = DOMAIN vertex_shader_sources
    /\ DOMAIN r.programs = RegisteredPrograms
    /\ DOMAIN r.vertex_array_objects = RegisteredPrograms
    /\ DOMAIN r.buffers = RegisteredBuffers
    /\ DOMAIN r.attributes = {l.attribute_id : l \in attribute_links}
    /\ DOMAIN r.uniforms = {l.uniform_id : l \in uniform_links}
    /\ DOMAIN r.textures = RegisteredTextures
    /\ DOMAIN r.framebuffers = {l.framebuffer_id : l \in framebuffer_links}
    /\ DOMAIN r.transform_feedbacks =
           {l.transform_feedback_id : l \in transform_feedback_links}

C4_AllOrNothing ==
    /\ ~Done => result = None /\ renderer = None
    /\ Done =>
         \/ /\ Succeeded
            /\ renderer # None
            /\ RendererComplete(renderer[1])
            /\ canvas # None /\ gl # None /\ render_callback # None
         \/ /\ Len(result) = 1
            /\ result[1] \in RendererBuilderError
            /\ renderer = None

C4_Witness ==
    /\ Done
    /\ ~Succeeded
    /\ DOMAIN programs # {}
    /\ DOMAIN buffers # {}

(***************************************************************************)
(* C5: when no link has a missing cross-reference and the canvas, the       *)
(* render callback and the GPU calls are there, build succeeds and every    *)
(* identifier registered or referenced by a link is a key of the matching   *)
(* table of the Renderer.                                                   *)
(***************************************************************************)
\* the names a program linked from `program_link` has
LinkedNames(program_link) ==
    Declares(vertex_shader_sources[program_link.vertex_shader_id])
      \cup Declares(fragment_shader_sources[program_link.fragment_shader_id])

NoMissingCrossReference ==
    /\ \A l \in program_links :
         /\ l.vertex_shader_id \in DOMAIN vertex_shader_sources
         /\ l.fragment_shader_id \in DOMAIN fragment_shader_sources
    /\ \A l \in attribute_links :
         /\ l.buffer_id \in RegisteredBuffers
         /\ \A k \in DOMAIN l.program_ids :
              \E pl \in program_links :
                /\ pl.program_id = l.program_ids[k]
                /\ AttributeName[l.attribute_id] \in
                       Declares(vertex_shader_sources[pl.vertex_shader_id])
    /\ \A l \in uniform_links :
         \A k \in DOMAIN l.program_ids :
           \E pl \in program_links :
             /\ pl.program_id = l.program_ids[k]
             /\ UniformName[l.uniform_id] \in LinkedNames(pl)
    /\ \A l \in framebuffer_links :
         l.texture_id # None => l.texture_id[1] \in RegisteredTextures

Resolvable(r) ==
    /\ \A l \in program_links :
         /\ l.program_id \in DOMAIN r.programs
         /\ l.program_id \in DOMAIN r.vertex_array_objects
         /\ l.vertex_shader_id \in DOMAIN r.vertex_shaders
         /\ l.fragment_shader_id \in DOMAIN r.fragment_shaders
    /\ \A l \in buffer_links : l.buffer_id \in DOMAIN r.buffers
    /\ \A l \in attribute_links :
         /\ l.attribute_id \in DOMAIN r.attributes
         /\ l.buffer_id \in DOMAIN r.buffers
         /\ \A k \in DOMAIN l.program_ids :
              /\ l.program_ids[k] \in DOMAIN r.programs
              /\ l.program_ids[k] \in DOMAIN r.vertex_array_objects
    /\ \A l \in uniform_links :
         /\ l.uniform_id \in DOMAIN r.uniforms
         /\ \A k \in DOMAIN l.program_ids :
              l.program_ids[k] \in DOMAIN r.programs
    /\ \A l \in texture_links : l.texture_id \in DOMAIN r.textures
    /\ \A l \in framebuffer_links :
         /\ l.framebuffer_id \in DOMAIN r.framebuffers
         /\ l.texture_id # None => l.texture_id[1] \in DOMAIN r.textures
    /\ \A l \in transform_feedback_links :
         l.transform_feedback_id \in DOMAIN r.transform_feedbacks

C5_ResolvedBuildSucceeds ==
    ( /\ Done
      /\ canvas # None
      /\ render_callback # None
      /\ NoMissingCrossReference
      /\ result[1] \notin GpuCallErrors )
    => /\ Succeeded
       /\ renderer # None
       /\ Resolvable(renderer[1])

C5_Witness ==
    /\ Done
    /\ Succeeded
    /\ attribute_links # {}
    /\ NoMissingCrossReference

(***************************************************************************)
(* Vocabulary of the claims about missing references                       *)
(***************************************************************************)
\* the link names an owning program that no program link registers
UnregisteredOwner(l) ==
    \E k \in DOMAIN l.program_ids : l.program_ids[k] \notin RegisteredPrograms

\* the attribute table holds the entry made from the attribute link l
AttributeEntryOf(l) ==
    /\ l.attribute_id \in DOMAIN attributes
    /\ attributes[l.attribute_id].program_ids = l.program_ids
    /\ attributes[l.attribute_id].buffer_id = l.buffer_id

\* the uniform table holds the entry made from the uniform link l
UniformEntryOf(l) ==
    /\ l.uniform_id \in DOMAIN uniforms
    /\ uniforms[l.uniform_id].program_ids = l.program_ids

\* the errors of the stages that run before create_attributes
BeforeAttributesErrors ==
    { "CanvasReturnedNoContext", "WebGL2ContextRetrievalError",
      "WebGL2ContextNotFoundError", "WebGL2TypeConversionError",
      "NoContextCompileShaderError", "NoShaderReturnedCompilerShaderError",
      "KnownErrorCompileShaderError", "UnknownErrorCompilerShaderError",
      "NoContextLinkProgramError", "VertexShaderNotFoundLinkProgramError",
      "FragmentShaderNotFoundLinkProgramError",
      "NoProgramLinkLinkProgramError", "NoProgramLinkProgramError",
      "NoVaoLinkProgramError", "CreateProgramLinkProgramError",
      "NoContextCreateAttributeError" }

\* the vertex shader of a registered owner of l does not declare l's name
UndeclaredInOwner(l) ==
    \E k \in DOMAIN l.program_ids :
      \E pl \in program_links :
        /\ pl.program_id = l.program_ids[k]
        /\ pl.vertex_shader_id \in DOMAIN vertex_shader_sources
        /\ AttributeName[l.attribute_id] \notin
               Declares(vertex_shader_sources[pl.vertex_shader_id])

\* neither shader of a registered owner of l declares l's name
UniformUndeclaredInOwner(l) ==
    \E k \in DOMAIN l.program_ids :
      \E pl \in program_links :
        /\ pl.program_id = l.program_ids[k]
        /\ pl.vertex_shader_id \in DOMAIN vertex_shader_sources
        /\ pl.fragment_shader_id \in DOMAIN fragment_shader_sources
        /\ UniformName[l.uniform_id] \notin LinkedNames(pl)

(***************************************************************************)
(* C6 as stated: when an attribute link names an owning program that is not *)
(* registered, build fails with ProgramNotFoundCreateAttributeError,        *)
(* whatever else is or is not registered.                                   *)
(***************************************************************************)
C6_AlwaysProgramNotFound ==
    (Done /\ \E l \in attribute_links : UnregisteredOwner(l))
      => result = Some("ProgramNotFoundCreateAttributeError")

(***************************************************************************)
(* C6 amended: when an attribute link names an owning program that is not   *)
(* registered, build never returns a Renderer and never stores an           *)
(* attribute for that link; its error is                                    *)
(* ProgramNotFoundCreateAttributeError when build reaches the attribute     *)
(* stage and no attribute link has an unregistered buffer or a name that a  *)
(* registered owner does not declare.                                       *)
(***************************************************************************)
C6_UnregisteredOwnerFailsBuild ==
    \A l \in attribute_links :
      UnregisteredOwner(l) =>
        /\ ~AttributeEntryOf(l)
        /\ ~Succeeded
        /\ renderer = None
        /\ ( /\ Done
             /\ result[1] \notin BeforeAttributesErrors
             /\ \A other \in attribute_links :
                  /\ other.buffer_id \in RegisteredBuffers
                  /\ ~UndeclaredInOwner(other) )
           => result = Some("ProgramNotFoundCreateAttributeError")

C6_Witness ==
    /\ Done
    /\ result = Some("ProgramNotFoundCreateAttributeError")
    /\ \E l \in attribute_links :
         UnregisteredOwner(l) /\ Len(l.program_ids) = 2

(***************************************************************************)
(* C7: when the lookup of an attribute's or a uniform's name in an owning   *)
(* program finds nothing (-1 for an attribute, no location for a uniform),  *)
(* build fails with the matching location-not-found error and no entry is   *)
(* produced for the link; a link whose name a registered owner does not     *)
(* declare never gets an entry and build never succeeds.                    *)
(***************************************************************************)
C7_LocationNotFoundFailsBuild ==
    /\ \A i \in Positions("get_attrib_location") :
         calls[i].arg = <<-1>> =>
           /\ Done
           /\ result = Some("AttributeLocationNotFoundCreateAttributeError")
           /\ renderer = None
           /\ \A l \in attribute_links :
                ( /\ l.attribute_id = calls[i].id
                  /\ \E k \in DOMAIN l.program_ids :
                       l.program_ids[k] = calls[i].prog )
                => ~AttributeEntryOf(l)
    /\ \A i \in Positions("get_uniform_location") :
         calls[i].arg = None =>
           /\ Done
           /\ result = Some("UniformLocationNotFoundBuildUniformsError")
           /\ renderer = None
           /\ \A l \in uniform_links :
                ( /\ l.uniform_id = calls[i].id
                  /\ \E k \in DOMAIN l.program_ids :
                       l.program_ids[k] = calls[i].prog )
                => ~UniformEntryOf(l)
    /\ \A l \in attribute_links :
         UndeclaredInOwner(l) => ~AttributeEntryOf(l) /\ ~Succeeded
    /\ \A l \in uniform_links :
         UniformUndeclaredInOwner(l) => ~UniformEntryOf(l) /\ ~Succeeded

C7_Witness ==
    /\ Done
    /\ result = Some("AttributeLocationNotFoundCreateAttributeError")
    /\ \E i \in Positions("get_attrib_location") : calls[i].arg = <<-1>>

(***************************************************************************)
(* C8: a framebuffer link that names a texture identifier which is not in   *)
(* the texture table makes build fail; its callback is never invoked with   *)
(* an absent texture.                                                       *)
(***************************************************************************)
C8_MissingTextureFailsBuild ==
    /\ \A i \in Positions("create_framebuffer") :
         calls[i].arg = None =>
           \A l \in framebuffer_links :
             l.framebuffer_id = calls[i].id => l.texture_id = None
    /\ (\E l \in framebuffer_links :
          l.texture_id # None /\ l.texture_id[1] \notin RegisteredTextures)
         => ~Succeeded

(***************************************************************************)
(* C9: a framebuffer link with no texture reference is valid: its callback  *)
(* is invoked once, with an absent texture, build does not fail because of  *)
(* it, and the framebuffer is in the framebuffer table.                     *)
(***************************************************************************)
\* build has gone past create_framebuffers
FramebuffersCreated ==
    \/ pc \in {"create_transform_feedbacks", "assemble"}
    \/ /\ Done
       /\ result[1] \in {"Ok", "NoRenderCallbackBuildError",
                         "TransformFeedbackNotFoundTransformFeedbackError"}

C9_NoTextureIsValid ==
    /\ result # Some("NoContextCreateFramebufferError")
    /\ (Done /\ calls # << >> /\ calls[Len(calls)].op = "create_framebuffer")
         => result[1] \in {"Ok", "NoRenderCallbackBuildError"}
    /\ \A l \in framebuffer_links :
         l.texture_id = None =>
           LET made == PositionsOf("create_framebuffer", l.framebuffer_id)
           IN /\ Cardinality(made) <= 1
              /\ \A i \in made : calls[i].arg = None
              /\ FramebuffersCreated =>
                   /\ Cardinality(made) = 1
                   /\ l.framebuffer_id \in DOMAIN framebuffers
                   /\ framebuffers[l.framebuffer_id].webgl_framebuffer
                          = <<l.framebuffer_id, l.callback, None>>
              /\ Succeeded =>
                   l.framebuffer_id \in DOMAIN renderer[1].framebuffers

C9_Witness ==
    /\ Done
    /\ Succeeded
    /\ \E l \in framebuffer_links :
         /\ l.texture_id = None
         /\ l.framebuffer_id \in DOMAIN renderer[1].framebuffers
         /\ PositionsOf("create_framebuffer", l.framebuffer_id) # {}

(***************************************************************************)
(* C10 as stated: no validation happens at registration: every write        *)
(* operation of a builder succeeds and only records its argument; every     *)
(* failure, the acquisition of the context from the canvas included, is     *)
(* reported by build and by build only.                                     *)
(***************************************************************************)
\* nothing has been acquired, compiled, linked or created, nothing has failed
NothingBuilt ==
    /\ result = None
    /\ renderer = None
    /\ gl = None
    /\ calls = << >>
    /\ DOMAIN fragment_shaders = {} /\ DOMAIN vertex_shaders = {}
    /\ DOMAIN programs = {} /\ DOMAIN vertex_array_objects = {}
    /\ DOMAIN buffers = {} /\ DOMAIN attributes = {} /\ DOMAIN uniforms = {}
    /\ DOMAIN textures = {} /\ DOMAIN framebuffers = {}
    /\ DOMAIN transform_feedbacks = {}

C11_MissingCanvasIsNoCanvasBuildError ==
    (Done /\ canvas = None) =>
      /\ result = Some("NoCanvasBuildError")
      /\ renderer = None

LacksVertexShader(l) == l.vertex_shader_id \notin DOMAIN vertex_shader_sources
LacksFragmentShader(l) ==
    l.fragment_shader_id \notin DOMAIN fragment_shader_sources

\* the errors build can return before it gets to linking, and the errors of a
\* GPU call made while linking
BeforeLinkingErrors ==
    { "CanvasReturnedNoContext", "WebGL2ContextRetrievalError",
      "WebGL2ContextNotFoundError", "WebGL2TypeConversionError",
      "NoContextCompileShaderError", "NoShaderReturnedCompilerShaderError",
      "KnownErrorCompileShaderError", "UnknownErrorCompilerShaderError" }
LinkingGpuErrors ==
    { "CreateProgramLinkProgramError", "NoVaoLinkProgramError",
      "NoProgramLinkProgramError", "KnownErrorLinkProgramError",
      "UnknownErrorLinkProgramError" }

Called(op) == Len(calls') > Len(calls) /\ calls'[Len(calls) + 1].op = op
\* the positions the step adds to the log, after the call itself
Logged == (Len(calls) + 2)..Len(calls')
\* ... that hold a call or callback `op`
LoggedOf(op) == {i \in Logged : calls'[i].op = op}

\* the uniforms the renderer holds
RegisteredUniforms == DOMAIN renderer[1].uniforms

(***************************************************************************)
(* C14: update_uniforms applies update_uniform to every registered uniform  *)
(* exactly once per call, in some order, and to nothing else; it never      *)
(* changes the set of registered uniforms.                                  *)
(***************************************************************************)
C14_UpdateUniformsAppliesEachOnce ==
    [][ Called("update_uniforms") =>
          /\ \A u \in RegisteredUniforms :
               Cardinality({i \in LoggedOf("update_uniform") :
                               calls'[i].id = u}) = 1
          /\ \A i \in Logged : calls'[i].id \in RegisteredUniforms
          /\ renderer' = renderer
          /\ uniforms' = uniforms
          /\ ~panicked' ]_vars

\* update_uniforms was called on a renderer with two uniforms
C14_Witness ==
    /\ Built
    /\ RegisteredUniforms = {"u1", "u2"}
    /\ Positions("update_uniforms") # {}
    /\ Cardinality(Positions("update_uniform")) = 2
    /\ Positions("uniform_update_callback") # {}

(***************************************************************************)
(* C15: update_uniform(id) invokes the uniform's update callback, or its    *)
(* initialize callback when the link is configured to reuse it, once per    *)
(* owning program, each invocation preceded by making that program current; *)
(* it invokes no callback when the should-update callback returns false,    *)
(* and does nothing when no update callback was supplied.                   *)
(***************************************************************************)
\* the uniform link the renderer's entry for the uniform was built from
LinkOf(uniform_id) ==
    CHOOSE l \in uniform_links :
        /\ l.uniform_id = uniform_id
        /\ l.program_ids = renderer[1].uniforms[uniform_id].program_ids

\* the callback the link asks to be used for updates, if any
CallbackForUpdate(l) ==
    IF l.use_init_callback_for_update THEN Some(l.initialize_callback)
    ELSE l.update_callback

\* the step asked a should-update callback and it returned false
Skipped ==
    \E i \in LoggedOf("uniform_should_update_callback") :
        calls'[i].arg = <<FALSE>>

C15_UpdateUniformInvokesPerProgram ==
    [][ ( /\ Called("update_uniform")
          /\ calls'[Len(calls) + 1].id \in RegisteredUniforms ) =>
          LET u == calls'[Len(calls) + 1].id
              l == LinkOf(u)
              callback == CallbackForUpdate(l)
              invoked == LoggedOf("uniform_update_callback")
              owners == {l.program_ids[k] : k \in DOMAIN l.program_ids}
          IN /\ \A i \in Logged : calls'[i].id = u
             /\ callback = None => Logged = {}
             /\ Skipped => invoked = {}
             /\ (callback # None /\ ~Skipped) =>
                  /\ \A p \in owners :
                       Cardinality({i \in invoked : calls'[i].prog = p}) = 1
                  /\ \A i \in invoked :
                       /\ calls'[i].prog \in owners
                       /\ calls'[i].arg[1] = callback[1]
                       /\ calls'[i - 1].op = "use_program"
                       /\ calls'[i - 1].prog = calls'[i].prog ]_vars

\* update_uniform has updated a uniform that two programs own
C15_Witness ==
    /\ Built
    /\ Positions("update_uniforms") = {}
    /\ \E i \in Positions("update_uniform") :
         /\ calls[i].id \in RegisteredUniforms
         /\ Len(renderer[1].uniforms[calls[i].id].program_ids) = 2
         /\ Cardinality(PositionsOf("uniform_update_callback", calls[i].id)) = 2

(***************************************************************************)
(* C16: when update_uniforms is called twice in a row and a uniform's       *)
(* should-update callback returns false on the second call, the value the   *)
(* uniform holds on the GPU after the second call is the one it held after  *)
(* the first, and the second call does not invoke its update callback.      *)
(***************************************************************************)
\* the calls the user has made, by their positions in the log
UserCalls(log) ==
    {i \in DOMAIN log :
        /\ log[i].op \in {"use_program_with_vao", "update_uniform",
                          "update_uniforms", "render"}
        /\ log[i].arg = None}

\* the last call the user made was `op`
LastCallWas(op) ==
    /\ UserCalls(calls) # {}
    /\ \E i \in UserCalls(calls) :
         /\ calls[i].op = op
         /\ \A j \in UserCalls(calls) : j <= i

\* the invocations of a callback that writes the uniform's value in a program
Writes(log, uniform_id, program_id) ==
    {i \in DOMAIN log :
        /\ log[i].op \in {"uniform_initialize_callback",
                          "uniform_update_callback"}
        /\ log[i].id = uniform_id
        /\ log[i].prog = program_id}

\* the value a uniform holds on the GPU in a program: the one the last
\* callback invoked for it wrote, which is that callback's to choose from the
\* time it is given (build gives the time 0)
GpuValue(log, uniform_id, program_id) ==
    LET writes == Writes(log, uniform_id, program_id)
    IN IF writes = {} THEN None
       ELSE LET last == CHOOSE i \in writes : \A j \in writes : j <= i
            IN IF log[last].op = "uniform_initialize_callback"
               THEN <<"initialize", 0>>
               ELSE log[last].arg

\* the step asked the uniform's should-update callback and it returned false
SkippedFor(uniform_id) ==
    \E i \in LoggedOf("uniform_should_update_callback") :
        calls'[i].id = uniform_id /\ calls'[i].arg = <<FALSE>>

C16_SkippedUpdateKeepsValue ==
    [][ (Called("update_uniforms") /\ LastCallWas("update_uniforms")) =>
          \A u \in RegisteredUniforms :
            SkippedFor(u) =>
              /\ \A i \in LoggedOf("uniform_update_callback") :
                     calls'[i].id # u
              /\ \A p \in ProgramIds :
                     GpuValue(calls', u, p) = GpuValue(calls, u, p) ]_vars

\* update_uniforms was called twice in a row: the first call updated a
\* uniform, time went by, and the second call was told not to update it
C16_Witness ==
    /\ Built
    /\ Cardinality(UserCalls(calls)) = 2
    /\ \A i \in UserCalls(calls) : calls[i].op = "update_uniforms"
    /\ \E u \in RegisteredUniforms :
         \E w \in Positions("uniform_update_callback") :
         \E k \in Positions("uniform_should_update_callback") :
           /\ calls[w].id = u
           /\ calls[k].id = u
           /\ w < k
           /\ \E i \in UserCalls(calls) : w < i /\ i < k
           /\ calls[k].arg = <<FALSE>>
           /\ calls[w].arg[2] < now

(***************************************************************************)
(* C17: use_program_with_vao(id) and update_uniform(id) panic when the      *)
(* identifier is not in the renderer's tables; with a registered identifier *)
(* use_program_with_vao makes that program and its own vertex array object  *)
(* the current ones.                                                        *)
(***************************************************************************)
\* what the last call of `op` in the log was given, None when there is none
LastArg(log, op) ==
    LET at == {i \in DOMAIN log : log[i].op = op}
    IN IF at = {} THEN None
       ELSE log[CHOOSE i \in at : \A j \in at : j <= i].arg
\* the program gl.use_program made current last
CurrentProgram(log) == LastArg(log, "use_program")
\* the vertex array object gl.bind_vertex_array bound last
CurrentVertexArray(log) == LastArg(log, "bind_vertex_array")

C17_UnknownIdPanics ==
    [][ LET id == calls'[Len(calls) + 1].id
            r == renderer[1]
        IN /\ Called("use_program_with_vao") =>
                IF id \in DOMAIN r.programs
                THEN /\ ~panicked'
                     /\ CurrentProgram(calls') = Some(id)
                     /\ id \in DOMAIN r.vertex_array_objects
                     /\ CurrentVertexArray(calls')
                            = Some(r.vertex_array_objects[id])
                     /\ \A other \in DOMAIN r.vertex_array_objects \ {id} :
                            r.vertex_array_objects[other]
                                # r.vertex_array_objects[id]
                ELSE panicked' /\ Logged = {}
           /\ Called("update_uniform") =>
                IF id \in RegisteredUniforms
                THEN ~panicked'
                ELSE panicked' /\ Logged = {} ]_vars

\* with two programs linked, use_program_with_vao made the second current,
\* and then update_uniform was given an identifier the renderer does not hold
C17_Witness ==
    /\ pc = "done"
    /\ renderer # None
    /\ DOMAIN renderer[1].programs = {"p1", "p2"}
    /\ panicked
    /\ Len(calls) > 0
    /\ CurrentProgram(calls) = Some("p2")
    /\ CurrentVertexArray(calls) = Some(renderer[1].vertex_array_objects["p2"])
    /\ calls[Len(calls)].op = "update_uniform"
    /\ calls[Len(calls)].id \notin RegisteredUniforms

(***************************************************************************)
(* C18: once build has returned the renderer, its resource tables stay as   *)
(* they are under every sequence of render, update_uniform, update_uniforms *)
(* and use_program_with_vao.                                                *)
(***************************************************************************)
C18_TablesFixedAfterBuild ==
    [][ ( /\ pc = "done"
          /\ renderer # None
          /\ \/ Called("render")
             \/ Called("update_uniform")
             \/ Called("update_uniforms")
             \/ Called("use_program_with_vao") ) =>
          /\ renderer' = renderer
          /\ tables' = tables
          /\ shaders' = shaders ]_vars

\* two calls were made on a renderer that holds programs and uniforms, and
\* they invoked callbacks and made GPU calls
C18_Witness ==
    /\ pc = "done"
    /\ renderer # None
    /\ renderer[1].programs # EmptyMap
    /\ renderer[1].uniforms # EmptyMap
    /\ Cardinality(UserCalls(calls)) = 2
    /\ Positions("uniform_update_callback") # {}
    /\ \/ Positions("render_callback") # {}
       \/ Positions("bind_vertex_array") # {}

(***************************************************************************)
(* C19: start_animating moves the handle from Idle to Animating and does    *)
(* nothing when it is already Animating: after any sequence of              *)
(* start_animating and stop_animating calls at most one frame registration  *)
(* is pending, so the animation callback runs at most once per frame tick.  *)
(***************************************************************************)
C19_StartAnimatingRegistersOnce ==
    [][ /\ pending_frames' <= 1
        /\ Called("start_animating") =>
             /\ is_animating'
             /\ pending_frames' = 1
             /\ is_animating =>
                  /\ Logged = {}
                  /\ pending_frames' = pending_frames
        /\ Called("frame_tick") =>
             Cardinality(LoggedOf("animation_callback")) <= 1 ]_vars

\* start_animating was called twice in a row, then a frame ran and invoked
\* the animation callback
C19_Witness ==
    /\ is_animating
    /\ pending_frames = 1
    /\ \E i \in Positions("start_animating") :
       \E j \in Positions("start_animating") :
       \E k \in Positions("frame_tick") :
         /\ i < j
         /\ j < k
         /\ \A m \in (i + 1)..(j - 1) : calls[m].op = "request_animation_frame"
         /\ \E c \in Positions("animation_callback") : k < c

(***************************************************************************)
(* C20: stop_animating cancels the pending frame registration and moves     *)
(* the handle from Animating to Idle; called in Idle it changes nothing.    *)
(* After stop_animating has returned, no animation callback is invoked      *)
(* until start_animating is called again.                                   *)
(***************************************************************************)
C20_StopAnimatingCancels ==
    [][ /\ Called("stop_animating") =>
             /\ ~is_animating'
             /\ pending_frames' = 0
             /\ is_animating =>
                  \E i \in Logged : calls'[i].op = "cancel_animation_frame"
             /\ ~is_animating =>
                  /\ Logged = {}
                  /\ pending_frames' = pending_frames
        /\ (handle = "live" /\ ~is_animating) =>
             \A i \in (Len(calls) + 1)..Len(calls') :
                 calls'[i].op # "animation_callback" ]_vars

\* frames ran and invoked the animation callback, then stop_animating was
\* called while Animating, then called again while Idle
C20_Witness ==
    /\ handle = "live"
    /\ ~is_animating
    /\ pending_frames = 0
    /\ Len(calls) > 1
    /\ calls[Len(calls)].op = "stop_animating"
    /\ calls[Len(calls) - 1].op = "cancel_animation_frame"
    /\ \E c \in Positions("animation_callback") :
       \E k \in Positions("stop_animating") : c < k /\ k = Len(calls) - 2

(***************************************************************************)
(* C21: start_animating followed immediately by stop_animating, with no     *)
(* frame tick in between, results in zero invocations of the animation      *)
(* callback: none between the two calls, and none after them until          *)
(* start_animating is called again.                                         *)
(***************************************************************************)
\* the log holds stop_animating at j right after start_animating at i: only
\* the registration of the frame callback lies between them
StoppedRightAfterStart(i, j) ==
    /\ i \in Positions("start_animating")
    /\ j \in Positions("stop_animating")
    /\ i < j
    /\ \A m \in (i + 1)..(j - 1) : calls[m].op = "request_animation_frame"

C21_StartThenStopInvokesNothing ==
    \A i \in DOMAIN calls, j \in DOMAIN calls :
      StoppedRightAfterStart(i, j) =>
        \A c \in Positions("animation_callback") :
          c > i => \E again \in Positions("start_animating") :
                     j < again /\ again < c

\* a handle that was started from Idle and stopped at once, and nothing else
C21_Witness ==
    /\ handle = "live"
    /\ Len(calls) = 4
    /\ calls[1].op = "start_animating"
    /\ calls[2].op = "request_animation_frame"
    /\ calls[3].op = "stop_animating"
    /\ calls[4].op = "cancel_animation_frame"
    /\ ~is_animating
    /\ pending_frames = 0

(***************************************************************************)
(* C22: dropping the animation handle while Animating cancels the pending   *)
(* frame registration: the animation callback is never invoked after the    *)
(* handle, and the renderer it owns, has been dropped.                      *)
(***************************************************************************)
C22_DropCancelsAnimation ==
    [][ /\ (Called("drop") /\ is_animating) =>
             /\ pending_frames' = 0
             /\ \E i \in Logged : calls'[i].op = "cancel_animation_frame"
        /\ handle = "dropped" =>
             \A i \in (Len(calls) + 1)..Len(calls') :
                 calls'[i].op # "animation_callback"
        /\ handle' = "dropped" => pending_frames' = 0 ]_vars

\* frames ran and invoked the animation callback, then the handle was dropped
\* while Animating
C22_Witness ==
    /\ handle = "dropped"
    /\ pending_frames = 0
    /\ Len(calls) > 1
    /\ calls[Len(calls)].op = "cancel_animation_frame"
    /\ calls[Len(calls) - 1].op = "drop"
    /\ Positions("animation_callback") # {}

(***************************************************************************)
(* C23: when a build stage fails, the build stops there: no creation or     *)
(* initialize callback of a later stage is invoked, while the callbacks of  *)
(* the earlier stages, and of the links the failing stage had already       *)
(* processed, have been invoked and what they did is not undone.            *)
(***************************************************************************)
\* the place in the pipeline, as Rank counts it, of the stage that returns
\* the error; the final assembly comes after every stage
FailedRank(error) ==
    CASE error \in {"NoContextLinkProgramError",
                    "VertexShaderNotFoundLinkProgramError",
                    "FragmentShaderNotFoundLinkProgramError",
                    "NoProgramLinkLinkProgramError",
                    "NoProgramLinkProgramError", "NoVaoLinkProgramError",
                    "CreateProgramLinkProgramError"} -> 1
      [] error \in {"NoContextCreateAttributeError",
                    "AttributeLocationNotFoundCreateAttributeError",
                    "ProgramNotFoundCreateAttributeError",
                    "VAONotFoundCreateAttributeError",
                    "BufferNotFoundCreateAttributeError"} -> 3
      [] error \in {"NoContextBuildUniformsError",
                    "ProgramNotFoundBuildUniformsError",
                    "UniformLocationNotFoundBuildUniformsError",
                    "NoContextInitializeUniformsError"} -> 4
      [] error = "NoContextCreateTextureError" -> 5
      [] error = "NoContextCreateFramebufferError" -> 6
      [] error \in {"NoContextBuildTransformFeedbackError",
                    "TransformFeedbackNotFoundTransformFeedbackError"} -> 7
      [] error \in {"NoCanvasBuildError", "NoContextBuildError",
                    "NoRenderCallbackBuildError"} -> 8
      [] OTHER -> 0

\* every callback of the stages before the one at `rank` has been invoked
EarlierCallbacksInvoked(rank) ==
    /\ rank > 1 => \A l \in program_links :
         PositionsOf("program_create_callback", l.program_id) # {}
    /\ rank > 2 => \A l \in buffer_links :
         PositionsOf("create_buffer", l.buffer_id) # {}
    /\ rank > 3 => \A l \in attribute_links :
         \A k \in DOMAIN l.program_ids :
           \E i \in PositionsOf("attribute_create_callback", l.attribute_id) :
               calls[i].prog = l.program_ids[k]
    /\ rank > 4 => \A l \in uniform_links :
         \A k \in DOMAIN l.program_ids :
           \E i \in PositionsOf("uniform_initialize_callback", l.uniform_id) :
               calls[i].prog = l.program_ids[k]
    /\ rank > 5 => \A l \in texture_links :
         PositionsOf("create_texture", l.texture_id) # {}
    /\ rank > 6 => \A l \in framebuffer_links :
         PositionsOf("create_framebuffer", l.framebuffer_id) # {}
    /\ rank > 7 => \A l \in transform_feedback_links :
         PositionsOf("create_transform_feedback", l.transform_feedback_id) # {}

\* build has returned an error
Failed == Done /\ result # None /\ ~Succeeded

\* the tables hold what they held, and more
TablesKept ==
    /\ \A id \in DOMAIN programs :
         id \in DOMAIN programs' /\ programs'[id] = programs[id]
    /\ \A id \in DOMAIN buffers :
         id \in DOMAIN buffers' /\ buffers'[id] = buffers[id]
    /\ \A id \in DOMAIN textures :
         id \in DOMAIN textures' /\ textures'[id] = textures[id]
    /\ DOMAIN vertex_array_objects \subseteq DOMAIN vertex_array_objects'
    /\ DOMAIN attributes \subseteq DOMAIN attributes'
    /\ DOMAIN uniforms \subseteq DOMAIN uniforms'
    /\ DOMAIN framebuffers \subseteq DOMAIN framebuffers'
    /\ DOMAIN transform_feedbacks \subseteq DOMAIN transform_feedbacks'

C23_FailureStopsBuild ==
    [][ /\ Len(calls') >= Len(calls)
        /\ \A i \in DOMAIN calls : calls'[i].op = calls[i].op
                                   /\ calls'[i].id = calls[i].id
        /\ TablesKept
        /\ Failed' =>
             /\ \A i \in DOMAIN calls' :
                    Rank(calls'[i].op) <= FailedRank(result'[1])
             /\ EarlierCallbacksInvoked(FailedRank(result[1]))' ]_vars

\* the second of two programs failed to link after the first was linked, and
\* a buffer link never got its callback invoked
C23_Witness ==
    /\ Failed
    /\ result = Some("CreateProgramLinkProgramError")
    /\ Cardinality(Positions("program_create_callback")) = 2
    /\ Cardinality(DOMAIN programs) = 1
    /\ buffer_links # {}
    /\ Positions("create_buffer") = {}

(***************************************************************************)
(* C24: for each attribute link and each of its owning programs, build      *)
(* resolves the program and its vertex array object, resolves the location  *)
(* by name, binds the vertex array object, binds the attribute's buffer,    *)
(* enables the attribute array slot, invokes the create callback once, then *)
(* unbinds the vertex array object and the buffer; the callback runs        *)
(* exactly once per owning program and is given the same buffer handle for  *)
(* every owner.                                                             *)
(***************************************************************************)
\* build has gone past create_attributes
AttributesCreated ==
    \/ pc = "assemble"
    \/ Succeeded
    \/ Failed /\ FailedRank(result[1]) > 3

\* the places where the attribute links with this attribute and buffer name
\* the program as an owner
OwnerPlaces(attribute_id, buffer_id, program_id) ==
    UNION { { <<l, k>> : k \in {n \in DOMAIN l.program_ids :
                                    l.program_ids[n] = program_id} } :
            l \in {h \in attribute_links : /\ h.attribute_id = attribute_id
                                           /\ h.buffer_id = buffer_id} }

C24_AttributeCallbackSequence ==
    /\ \A i \in Positions("attribute_create_callback") :
         LET a == calls[i].id
             p == calls[i].prog
             webgl_buffer == calls[i].arg[1]
             location == calls[i].arg[2]
         IN /\ i > 4
            /\ i + 2 <= Len(calls)
            /\ p \in DOMAIN programs
            /\ p \in DOMAIN vertex_array_objects
            /\ calls[i - 4].op = "get_attrib_location"
            /\ calls[i - 4].id = a
            /\ calls[i - 4].prog = p
            /\ calls[i - 4].arg = <<location>>
            /\ location = GetAttribLocation(programs[p], AttributeName[a])
            /\ calls[i - 3].op = "bind_vertex_array"
            /\ calls[i - 3].arg = Some(vertex_array_objects[p])
            /\ calls[i - 2].op = "bind_buffer"
            /\ calls[i - 2].arg = Some(webgl_buffer)
            /\ calls[i - 1].op = "enable_vertex_attrib_array"
            /\ calls[i - 1].arg = <<location>>
            /\ calls[i + 1].op = "bind_vertex_array"
            /\ calls[i + 1].arg = None
            /\ calls[i + 2].op = "bind_buffer"
            /\ calls[i + 2].arg = None
            /\ \E l \in attribute_links :
                 /\ l.attribute_id = a
                 /\ l.buffer_id \in DOMAIN buffers
                 /\ webgl_buffer = buffers[l.buffer_id].webgl_buffer
                 /\ \E k \in DOMAIN l.program_ids : l.program_ids[k] = p
    /\ AttributesCreated =>
         \A l \in attribute_links : \A k \in DOMAIN l.program_ids :
           LET p == l.program_ids[k]
               invoked ==
                 {i \in PositionsOf("attribute_create_callback", l.attribute_id) :
                     /\ calls[i].prog = p
                     /\ calls[i].arg[1] = buffers[l.buffer_id].webgl_buffer}
           IN Cardinality(invoked)
                = Cardinality(OwnerPlaces(l.attribute_id, l.buffer_id, p))

\* the attribute of a link with two owning programs was created for both
C24_Witness ==
    /\ Succeeded
    /\ \E l \in attribute_links :
         /\ Len(l.program_ids) = 2
         /\ \A k \in DOMAIN l.program_ids :
              \E i \in PositionsOf("attribute_create_callback", l.attribute_id) :
                /\ calls[i].prog = l.program_ids[k]
                /\ calls[i].arg[1] = buffers[l.buffer_id].webgl_buffer

(***************************************************************************)
(* C25: for each uniform link, build invokes the initialize callback        *)
(* exactly once per owning program, each time with that program active,     *)
(* and records one location per owning program; after a successful build    *)
(* the uniform's location map has exactly the link's program ids as keys,   *)
(* and no program is left active after the uniform is built.                *)
(***************************************************************************)
\* build stands at a stage after `stage`, or has returned from one
PastStage(stage, rank) ==
    \/ \E i \in DOMAIN StageOrder :
         StageOrder[i] = pc /\ i > StageIndex(stage)
    \/ Succeeded
    \/ Failed /\ FailedRank(result[1]) > rank

\* the programs a link names as owners
Owners(l) == {l.program_ids[k] : k \in DOMAIN l.program_ids}

\* the places where the uniform links with this uniform name the program as
\* an owner
UniformOwnerPlaces(uniform_id, program_id) ==
    UNION { { <<l, k>> : k \in {n \in DOMAIN l.program_ids :
                                    l.program_ids[n] = program_id} } :
            l \in {h \in uniform_links : h.uniform_id = uniform_id} }

C26_OneVaoPerProgram ==
    /\ DOMAIN vertex_array_objects = DOMAIN programs
    /\ \A p \in DOMAIN vertex_array_objects :
         \A q \in DOMAIN vertex_array_objects :
           p # q => vertex_array_objects[p] # vertex_array_objects[q]
    /\ Succeeded =>
         /\ DOMAIN renderer[1].vertex_array_objects = RegisteredPrograms
         /\ DOMAIN renderer[1].programs = RegisteredPrograms
    /\ result = Some("NoVaoLinkProgramError") =>
         /\ Failed
         /\ renderer = None
         /\ Len(calls) > 0
         /\ calls[Len(calls)].op = "program_create_callback"
         /\ calls[Len(calls)].id \in RegisteredPrograms
         /\ calls[Len(calls)].id \notin DOMAIN programs
         /\ calls[Len(calls)].id \notin DOMAIN vertex_array_objects

\* one program was linked, then the allocation failed for the second
C26_Witness ==
    /\ result = Some("NoVaoLinkProgramError")
    /\ Cardinality(RegisteredPrograms) = 2
    /\ Cardinality(DOMAIN programs) = 1
    /\ DOMAIN vertex_array_objects = DOMAIN programs

(***************************************************************************)
(* C27: the timestamp handed to the callbacks of one build never goes      *)
(* back: every callback sees a timestamp that is not smaller than the one  *)
(* seen by the callback invoked before it, and every callback build has    *)
(* invoked was handed one.                                                 *)
(***************************************************************************)
C27_TimestampsNeverDecrease ==
    /\ Len(timestamps) = Len(SelectSeq(calls, IsTimedCallback))
    /\ \A i \in 1..Len(timestamps) :
         /\ timestamps[i].op = SelectSeq(calls, IsTimedCallback)[i].op
         /\ timestamps[i].now <= now
    /\ \A i \in 1..(Len(timestamps) - 1) :
         timestamps[i].now <= timestamps[i + 1].now

\* C27 as stated: every callback sees a timestamp greater than the one seen
\* by the callback invoked before it
C27_TimestampsIncrease ==
    \A i \in 1..(Len(timestamps) - 1) :
      timestamps[i].now < timestamps[i + 1].now

\* a program callback, then two buffer callbacks that saw one timestamp,
\* greater than the program's, then a texture callback that saw a greater one
C27_Witness ==
    \E i \in 1..(Len(timestamps) - 3) :
      /\ timestamps[i].op = "program_create_callback"
      /\ timestamps[i + 1].op = "create_buffer"
      /\ timestamps[i + 2].op = "create_buffer"
      /\ timestamps[i + 3].op = "create_texture"
      /\ timestamps[i].now < timestamps[i + 1].now
      /\ timestamps[i + 1].now = timestamps[i + 2].now
      /\ timestamps[i + 2].now < timestamps[i + 3].now

(***************************************************************************)
(* C28: the check of the render callback is the last step of build. A      *)
(* build without a render callback reports nothing while its stages run;   *)
(* when it returns NoRenderCallbackBuildError the canvas and the context    *)
(* were there, every shader has been compiled and the callback of every    *)
(* program, buffer, attribute, uniform, texture, framebuffer and transform  *)
(* feedback link has been invoked; with a canvas and links that all got     *)
(* their resource that is the error it returns.                            *)
(***************************************************************************)
C28_RenderCallbackCheckedLast ==
    /\ (render_callback = None /\ pc \notin {"registering", "done"}) =>
         result = None
    /\ result = Some("NoRenderCallbackBuildError") =>
         /\ Failed
         /\ renderer = None
         /\ render_callback = None
         /\ canvas # None
         /\ gl # None
         /\ ShadersCompiled
         /\ EarlierCallbacksInvoked(8)
    /\ (Done /\ render_callback = None /\ canvas # None /\ gl # None
          /\ ShadersCompiled /\ ProgramsLinked /\ EarlierCallbacksInvoked(8)
          /\ \A l \in transform_feedback_links :
                l.transform_feedback_id \in DOMAIN transform_feedbacks) =>
         result = Some("NoRenderCallbackBuildError")

\* a build without render callback that compiled a shader and invoked the
\* callbacks of a program, a buffer and a texture before it failed
C28_Witness ==
    /\ result = Some("NoRenderCallbackBuildError")
    /\ DOMAIN vertex_shaders # {}
    /\ program_links # {}
    /\ buffer_links # {}
    /\ texture_links # {}
    /\ \E i \in DOMAIN calls : calls[i].op = "create_texture"

ProcessedLast(l) ==
    LET invoked ==
            SelectSeq(calls, LAMBDA e : /\ e.op = "attribute_create_callback"
                                        /\ e.id = l.attribute_id)
        n == Len(l.program_ids)
    IN /\ Len(invoked) >= n
       /\ \A k \in 1..n :
            /\ invoked[Len(invoked) - n + k].prog = l.program_ids[k]
            /\ invoked[Len(invoked) - n + k].arg[1]
                 = buffers[l.buffer_id].webgl_buffer

\* the table's entry is the Attribute create_attributes makes of the link
IsAttributeOf(attribute, l) ==
    /\ attribute.attribute_id = l.attribute_id
    /\ attribute.buffer_id = l.buffer_id
    /\ attribute.program_ids = l.program_ids
    /\ attribute.webgl_buffer = buffers[l.buffer_id].webgl_buffer
    /\ DOMAIN attribute.attribute_locations
         = {l.program_ids[k] : k \in DOMAIN l.program_ids}

(***************************************************************************)
(* C30: the attributes table holds at most one entry per attribute id.     *)
(* When several attribute links share an attribute id, build runs every    *)
(* link's create callback for each owner, but the table keeps only the     *)
(* entry of the link processed last: the buffer and the locations of the   *)
(* other links are not retrievable through attributes().                   *)
(***************************************************************************)
C30_AttributeTableKeepsLastLink ==
    /\ \A a \in DOMAIN attributes :
         \E l \in attribute_links :
           /\ IsAttributeOf(attributes[a], l)
           /\ ~Failed => ProcessedLast(l)
           /\ \A other \in attribute_links :
                (other.attribute_id = a /\ ~IsAttributeOf(attributes[a], other))
                  => \/ attributes[a].buffer_id # other.buffer_id
                     \/ attributes[a].program_ids # other.program_ids
    /\ AttributesCreated =>
         /\ DOMAIN attributes = {l.attribute_id : l \in attribute_links}
         /\ EarlierCallbacksInvoked(4)
    /\ Succeeded => renderer[1].attributes = attributes

\* two links give attribute a1 of programs p1 and p2 different buffers: both
\* links' callbacks ran for both programs, the table answers with one buffer
C30_Witness ==
    /\ Succeeded
    /\ \E l \in attribute_links, other \in attribute_links :
         /\ l.attribute_id = other.attribute_id
         /\ l.buffer_id # other.buffer_id
         /\ Len(other.program_ids) = 2
         /\ IsAttributeOf(renderer[1].attributes[l.attribute_id], l)
         /\ \A k \in DOMAIN other.program_ids :
              \E i \in PositionsOf("attribute_create_callback",
                                   other.attribute_id) :
                /\ calls[i].prog = other.program_ids[k]
                /\ calls[i].arg[1] = buffers[other.buffer_id].webgl_buffer
         /\ renderer[1].attributes[l.attribute_id].webgl_buffer
              # buffers[other.buffer_id].webgl_buffer

====
